---- MODULE Spec2Model ----
(***************************************************************************)
(* Model of the agent-logger plugin: the ActivityLogger engine (buffer,    *)
(* promise-chained write queue, Node write streams, shutdown paths), the   *)
(* LogRotator (size check, rename into the archive, retention cleanup) and *)
(* the plugin hooks that drive them.                                       *)
(*                                                                         *)
(* A line is the record [id, len, level]: id is the position of its log()  *)
(* call among the accepted ones, len is line.length, level the entry level.*)
(* Time is counted in ticks; rotation.maxAgeDays and the archive timestamp *)
(* are expressed in the same ticks.  Sizes are counted in line-length      *)
(* units; rotation.maxSizeMB is expressed in the same units.               *)
(***************************************************************************)
EXTENDS Integers, Sequences, FiniteSets, TLC

\* ------------------------------------------------------------------ bounds
MaxRecords == 3
MaxStreams == 2
MaxTime == 2
MaxCloseCalls == 2
MaxExtWrites == 3
MaxInodes == 3

\* ------------------------------------------------- configuration (scaled)
highWatermarkBytes == 2
maxSizeMB == 2
maxFiles == 1
maxAgeDays == 1

NoStream == 0
NoFile == 0
Null == "null"
LogPath == "P"

\* what can go wrong inside LogRotator.rotate: a concurrent actor removes the
\* file before existsSync(currentPath), or between existsSync and renameSync
\* (renameSync throws ENOENT), or renameSync throws with the file in place
NoFault == "none"
\* an exception leaving the call, as seen by the caller
Thrown == "throw"
RotateFaults == { NoFault, "vanishEarly", "vanishLate", "renameFails" }

\* levels: ['debug', 'info', 'warn', 'error'] by index
Levels == 0..3
LevelDebug == 0
LevelInfo == 1
LevelWarn == 2
LevelError == 3

\* no serializer has been called
NotSerialized ==
  [ fn |-> "none",
    entry |-> [ level |-> 0 - 1, type |-> "null", len |-> 0, event |-> "", status |-> "",
                data |-> [kind |-> "null", str |-> <<>>, keys |-> <<>>, vals |-> <<>>] ] ]

\* DEFAULT_CONFIG.excludedEvents
DefaultExcluded == { "token_usage", "heartbeat" }

\* The entries the hooks hand to log(): a debug line, an info line and a
\* longer error line.
Entries ==
  { [level |-> 0, len |-> 1], [level |-> 1, len |-> 1], [level |-> 3, len |-> 2] }

VARIABLES
  config,             \* LoggerConfig: [buffering, verbosity, rotation]
  stream,             \* ActivityLogger.stream: index into streams, or NoStream
  buffer,             \* ActivityLogger.buffer
  flushTimer,         \* ActivityLogger.flushTimer is set
  isClosing,          \* ActivityLogger.isClosing
  writeQueue,         \* ActivityLogger.writeQueue: the unresolved flush tasks
  closePc,            \* position of the close() call that runs the body
  closeWait,          \* tasks the `await this.writeQueue` of close() still waits for
  closeStream,        \* stream whose end() callback close() waits for
  hookPc,             \* position of the plugin's close hook
  streams,            \* the fs.WriteStream objects created so far
  inodes,             \* the files created so far: content and mtime
  active,             \* inode at currentLogPath, or NoFile
  archiveDir,         \* <logDir>/archive exists
  arch,               \* the archive directory: entries [ts, ino, gz]; gz: the
                      \* name ends in .ndjson.gz instead of .ndjson
  rotationInProgress, \* LogRotator.rotationInProgress
  now,                \* the clock
  alive,              \* the process has not exited
  nextId,             \* number of records log() accepted
  closeCalls,         \* number of close() calls made
  closeIds,           \* nextId when close() first set isClosing
  sigIds,             \* nextId when the first SIGINT/SIGTERM arrived, or -1
  lateLog,            \* a log() call was made after isClosing was set
  atRename,           \* engine state seen by the last renameSync of the active file
  lastRet,            \* what the last checkRotation call returned
  extWrites,          \* writes made by the harness of the rotator specification
  fault,              \* the fault injected into the last rotator call, or into
                      \* the initialization of the plugin
  outcome,            \* how the last call that can fail ended: "returned",
                      \* "caught" or "threw"
  hooks,              \* AgentLogger returned its hooks (FALSE: it returned {})
  serOut,             \* what the last serializer call returned
  arg,                \* the argument of the last call of a pure function
  ret                 \* what that call returned

vars ==
  << config, stream, buffer, flushTimer, isClosing, writeQueue, closePc, closeWait,
     closeStream, hookPc, streams, inodes, active, arch, rotationInProgress, now,
     alive, nextId, closeCalls, closeIds, sigIds, lateLog, atRename, lastRet,
     extWrites, archiveDir, fault, outcome, hooks, serOut, arg, ret >>

\* the variables only the fault and serializer harnesses change
aux == << fault, outcome, hooks, serOut, arg, ret >>

\* ----------------------------------------------------------------- helpers
RECURSIVE SumLen(_)
SumLen(lines) ==
  IF lines = <<>> THEN 0 ELSE lines[1].len + SumLen(Tail(lines))

Ids(lines) == { lines[i].id : i \in 1..Len(lines) }

RECURSIVE Flatten(_)
Flatten(chunks) ==
  IF chunks = <<>> THEN <<>> ELSE chunks[1] \o Flatten(Tail(chunks))

Perms(n) ==
  { p \in [1..n -> 1..n] : \A i, j \in 1..n : p[i] = p[j] => i = j }

\* The orders in which readdirSync may list a directory of at most n entries
\* (one order is enough when there is nothing to permute).
DirOrders(n) ==
  IF n < 2 THEN { [i \in 1..MaxInodes |-> i] } ELSE Perms(MaxInodes)

\* The engine and file-system state the operations below transform.
Cur ==
  [ stream |-> stream, buffer |-> buffer, flushTimer |-> flushTimer,
    isClosing |-> isClosing, writeQueue |-> writeQueue, streams |-> streams,
    inodes |-> inodes, active |-> active, archiveDir |-> archiveDir, arch |-> arch,
    rotationInProgress |-> rotationInProgress, nextId |-> nextId,
    lateLog |-> lateLog ]

Commit(s) ==
  /\ stream' = s.stream
  /\ buffer' = s.buffer
  /\ flushTimer' = s.flushTimer
  /\ isClosing' = s.isClosing
  /\ writeQueue' = s.writeQueue
  /\ streams' = s.streams
  /\ inodes' = s.inodes
  /\ active' = s.active
  /\ archiveDir' = s.archiveDir
  /\ arch' = s.arch
  /\ rotationInProgress' = s.rotationInProgress
  /\ nextId' = s.nextId
  /\ lateLog' = s.lateLog

\* ------------------------------------------------------------- file system
\* stats.size of the file held by inode k
Size(s, k) == SumLen(s.inodes[k].content)

\* open(path, 'a') / appendFileSync on a path with no file: an empty file appears
createFile(s) ==
  [ s EXCEPT !.inodes = Append(@, [content |-> <<>>, mtime |-> now]),
             !.active = Len(s.inodes) + 1 ]

\* bytes appended to inode k
appendTo(s, k, lines) ==
  [ s EXCEPT !.inodes[k].content = @ \o lines, !.inodes[k].mtime = now ]

\* readdirSync(archiveDir): the entries in the directory order ord
readdirSync(a, ord) ==
  LET inos == SelectSeq([i \in 1..MaxInodes |-> ord[i]],
                        LAMBDA k : \E e \in a : e.ino = k)
  IN  [ i \in 1..Len(inos) |-> CHOOSE e \in a : e.ino = inos[i] ]

\* files.sort((a, b) => b.mtime - a.mtime): newest first, ties in listing order
RECURSIVE sortNewestFirst(_, _)
sortNewestFirst(s, files) ==
  IF files = <<>> THEN <<>>
  ELSE LET rest == sortNewestFirst(s, SubSeq(files, 1, Len(files) - 1))
           x == files[Len(files)]
           keep == { i \in 1..Len(rest) :
                       s.inodes[rest[i].ino].mtime >= s.inodes[x.ino].mtime }
           k == Cardinality(keep)
       IN  SubSeq(rest, 1, k) \o <<x>> \o SubSeq(rest, k + 1, Len(rest))

\* .filter((f) => f.endsWith('.ndjson')): the entries cleanup and
\* getArchivedFiles look at
Listed(a) == { e \in a : ~e.gz }

\* the archive entries a rotation at this instant does not replace
Others(a) == { e \in a : e.ts # now }

\* ----------------------------------------------------------------- rotator
\* LogRotator.cleanup
cleanup(s, ord) ==
  IF ~config.rotation.enabled \/ ~s.archiveDir THEN s
  ELSE LET files == sortNewestFirst(s, readdirSync(Listed(s.arch), ord))
           overflow == IF Len(files) > maxFiles
                       THEN { files[i].ino : i \in (maxFiles + 1)..Len(files) }
                       ELSE {}
           cutoffDate == now - maxAgeDays
           expired == { files[i].ino : i \in { j \in 1..Len(files) :
                          s.inodes[files[j].ino].mtime < cutoffDate } }
       IN  [ s EXCEPT !.arch = { e \in @ : e.ino \notin overflow \cup expired } ]

\* the finally block of LogRotator.rotate
rotateFinally(s) == [ s EXCEPT !.rotationInProgress = FALSE ]

\* rotate whose guard is cleared on the success path only (no finally)
rotatorRotate_NoFinally(s, currentPath, ord, f) ==
  IF s.rotationInProgress THEN [st |-> s, ret |-> Null]
  ELSE LET begun == [ s EXCEPT !.rotationInProgress = TRUE, !.archiveDir = TRUE ]
           seen == IF f = "vanishEarly" THEN [ begun EXCEPT !.active = NoFile ]
                   ELSE begun
           renamed == [ seen EXCEPT !.arch = Others(@)
                                      \cup { [ts |-> now, ino |-> seen.active, gz |-> FALSE] },
                                    !.active = NoFile ]
       IN  IF seen.active = NoFile
           THEN [st |-> rotateFinally(cleanup(seen, ord)), ret |-> currentPath]
           ELSE IF f = "vanishLate"
           THEN [st |-> [ seen EXCEPT !.active = NoFile ], ret |-> Null]
           ELSE IF f = "renameFails"
           THEN [st |-> seen, ret |-> Null]
           ELSE [st |-> rotateFinally(cleanup(renamed, ord)), ret |-> currentPath]

\* rotate without its catch block: the exception of renameSync leaves the call
rotatorRotate_NoCatch(s, currentPath, ord, f) ==
  IF s.rotationInProgress THEN [st |-> s, ret |-> Null]
  ELSE LET begun == [ s EXCEPT !.rotationInProgress = TRUE, !.archiveDir = TRUE ]
           seen == IF f = "vanishEarly" THEN [ begun EXCEPT !.active = NoFile ]
                   ELSE begun
           renamed == [ seen EXCEPT !.arch = Others(@)
                                      \cup { [ts |-> now, ino |-> seen.active, gz |-> FALSE] },
                                    !.active = NoFile ]
       IN  IF seen.active = NoFile
           THEN [st |-> rotateFinally(cleanup(seen, ord)), ret |-> currentPath]
           ELSE IF f = "vanishLate"
           THEN [st |-> rotateFinally([ seen EXCEPT !.active = NoFile ]), ret |-> Thrown]
           ELSE IF f = "renameFails"
           THEN [st |-> rotateFinally(seen), ret |-> Thrown]
           ELSE [st |-> rotateFinally(cleanup(renamed, ord)), ret |-> currentPath]

\* LogRotator.rotate; f is the fault that strikes this call
rotatorRotate(s, currentPath, ord, f) ==
  IF s.rotationInProgress THEN [st |-> s, ret |-> Null]
  ELSE LET begun == [ s EXCEPT !.rotationInProgress = TRUE, !.archiveDir = TRUE ]
           seen == IF f = "vanishEarly" THEN [ begun EXCEPT !.active = NoFile ]
                   ELSE begun
           renamed == [ seen EXCEPT !.arch = Others(@)
                                      \cup { [ts |-> now, ino |-> seen.active, gz |-> FALSE] },
                                    !.active = NoFile ]
       IN  IF seen.active = NoFile
           THEN [st |-> rotateFinally(cleanup(seen, ord)), ret |-> currentPath]
           ELSE IF f = "vanishLate"
           THEN [st |-> rotateFinally([ seen EXCEPT !.active = NoFile ]), ret |-> Null]
           ELSE IF f = "renameFails"
           THEN [st |-> rotateFinally(seen), ret |-> Null]
           ELSE [st |-> rotateFinally(cleanup(renamed, ord)), ret |-> currentPath]

\* checkRotation that does not look at rotation.enabled
checkRotation_IgnoreEnabled(s, currentPath, ord, f) ==
  IF s.rotationInProgress THEN [st |-> s, ret |-> Null]
  ELSE IF s.active = NoFile THEN [st |-> s, ret |-> Null]
  ELSE IF Size(s, s.active) > maxSizeMB THEN rotatorRotate(s, currentPath, ord, f)
  ELSE [st |-> s, ret |-> Null]

\* checkRotation comparing with >= instead of >
checkRotation_Ge(s, currentPath, ord, f) ==
  IF ~config.rotation.enabled \/ s.rotationInProgress THEN [st |-> s, ret |-> Null]
  ELSE IF s.active = NoFile THEN [st |-> s, ret |-> Null]
  ELSE IF Size(s, s.active) >= maxSizeMB THEN rotatorRotate(s, currentPath, ord, f)
  ELSE [st |-> s, ret |-> Null]

\* checkRotation that lets the file grow one unit past the limit
checkRotation_Lenient(s, currentPath, ord, f) ==
  IF ~config.rotation.enabled \/ s.rotationInProgress THEN [st |-> s, ret |-> Null]
  ELSE IF s.active = NoFile THEN [st |-> s, ret |-> Null]
  ELSE IF Size(s, s.active) > maxSizeMB + 1 THEN rotatorRotate(s, currentPath, ord, f)
  ELSE [st |-> s, ret |-> Null]

\* LogRotator.checkRotation
checkRotation(s, currentPath, ord, f) ==
  IF ~config.rotation.enabled \/ s.rotationInProgress THEN [st |-> s, ret |-> Null]
  ELSE IF s.active = NoFile THEN [st |-> s, ret |-> Null]
  ELSE IF Size(s, s.active) > maxSizeMB THEN rotatorRotate(s, currentPath, ord, f)
  ELSE [st |-> s, ret |-> Null]

\* ------------------------------------------------------------- the engine
\* shouldLogLevel
shouldLogLevel(level) == level >= config.verbosity

\* Writable state.length: the bytes of the chunks the stream has not written yet
streamLength(st) == SumLen(Flatten(st.pending))

\* stream.write(chunk) on fs.WriteStream k: queued behind the stream's earlier
\* chunks; after end() the chunk is discarded with an 'error' event. The call
\* returns false, and the stream owes a 'drain', when the bytes it holds reach
\* its highWaterMark (buffering.highWatermarkBytes)
streamWrite(s, k, chunk) ==
  IF s.streams[k].ending THEN s
  ELSE [ s EXCEPT !.streams[k].pending = Append(@, chunk),
                  !.streams[k].needDrain =
                     @ \/ streamLength(s.streams[k]) + SumLen(chunk) >= highWatermarkBytes ]

\* stream.end()
streamEnd(s, k) == [ s EXCEPT !.streams[k].ending = TRUE ]

\* flush that forgets `this.buffer = []`
flush_KeepBuffer(s) ==
  IF s.buffer = <<>> \/ s.stream = NoStream THEN s
  ELSE [ s EXCEPT !.writeQueue = Append(@, [lines |-> s.buffer, started |-> FALSE]) ]

\* ActivityLogger.flush
flush(s) ==
  IF s.buffer = <<>> \/ s.stream = NoStream THEN s
  ELSE [ s EXCEPT !.buffer = <<>>,
                  !.writeQueue = Append(@, [lines |-> s.buffer, started |-> FALSE]) ]

\* ActivityLogger.writeImmediately
writeImmediately(s, line) ==
  IF s.stream = NoStream THEN s ELSE streamWrite(s, s.stream, <<line>>)

\* log without the isClosing early return
log_NoClosingCheck(s, entry) ==
  IF ~shouldLogLevel(entry.level) THEN s
  ELSE LET line == [id |-> s.nextId + 1, len |-> entry.len, level |-> entry.level]
           s1 == [ s EXCEPT !.nextId = @ + 1 ]
       IN  IF config.buffering.enabled
           THEN LET s2 == [ s1 EXCEPT !.buffer = Append(@, line) ]
                IN  IF SumLen(s2.buffer) > highWatermarkBytes THEN flush(s2) ELSE s2
           ELSE writeImmediately(s1, line)

\* log without the verbosity check
log_NoLevelCheck(s, entry) ==
  IF s.isClosing THEN [ s EXCEPT !.lateLog = TRUE ]
  ELSE LET line == [id |-> s.nextId + 1, len |-> entry.len, level |-> entry.level]
           s1 == [ s EXCEPT !.nextId = @ + 1 ]
       IN  IF config.buffering.enabled
           THEN LET s2 == [ s1 EXCEPT !.buffer = Append(@, line) ]
                IN  IF SumLen(s2.buffer) > highWatermarkBytes THEN flush(s2) ELSE s2
           ELSE writeImmediately(s1, line)

\* log without the watermark check
log_NoWatermark(s, entry) ==
  IF s.isClosing THEN [ s EXCEPT !.lateLog = TRUE ]
  ELSE IF ~shouldLogLevel(entry.level) THEN s
  ELSE LET line == [id |-> s.nextId + 1, len |-> entry.len, level |-> entry.level]
           s1 == [ s EXCEPT !.nextId = @ + 1 ]
       IN  IF config.buffering.enabled
           THEN [ s1 EXCEPT !.buffer = Append(@, line) ]
           ELSE writeImmediately(s1, line)

\* ActivityLogger.log
log(s, entry) ==
  IF s.isClosing THEN [ s EXCEPT !.lateLog = TRUE ]
  ELSE IF ~shouldLogLevel(entry.level) THEN s
  ELSE LET line == [id |-> s.nextId + 1, len |-> entry.len, level |-> entry.level]
           s1 == [ s EXCEPT !.nextId = @ + 1 ]
       IN  IF config.buffering.enabled
           THEN LET s2 == [ s1 EXCEPT !.buffer = Append(@, line) ]
                IN  IF SumLen(s2.buffer) > highWatermarkBytes THEN flush(s2) ELSE s2
           ELSE writeImmediately(s1, line)

\* initializeStream opening with flags 'w': the file is emptied
initializeStream_Truncate(s) ==
  LET s1 == IF s.active = NoFile THEN createFile(s) ELSE s
  IN  [ s1 EXCEPT !.inodes[s1.active].content = <<>>,
                  !.streams = Append(@, [ino |-> s1.active, pending |-> <<>>,
                                         ending |-> FALSE, finished |-> FALSE, needDrain |-> FALSE]),
                  !.stream = Len(s.streams) + 1 ]

\* ActivityLogger.initializeStream: createWriteStream(path, {flags: 'a'})
initializeStream(s) ==
  LET s1 == IF s.active = NoFile THEN createFile(s) ELSE s
  IN  [ s1 EXCEPT !.streams = Append(@, [ino |-> s1.active, pending |-> <<>>,
                                         ending |-> FALSE, finished |-> FALSE, needDrain |-> FALSE]),
                  !.stream = Len(s.streams) + 1 ]

\* rotate that ends the stream and does not open a new one
rotate_NoReopen(s, newPath) ==
  LET s1 == flush(s)
      s2 == IF s1.stream # NoStream THEN streamEnd(s1, s1.stream) ELSE s1
  IN  log(s2, [level |-> LevelInfo, len |-> 1])

\* ActivityLogger.rotate
rotate(s, newPath) ==
  LET s1 == flush(s)
      s2 == IF s1.stream # NoStream THEN streamEnd(s1, s1.stream) ELSE s1
      s3 == initializeStream(s2)
  IN  log(s3, [level |-> LevelInfo, len |-> 1])

\* syncFlush that appends the buffer even when there is no stream
syncFlush_NoStreamCheck(s) ==
  IF s.buffer = <<>> THEN s
  ELSE LET s1 == [ s EXCEPT !.buffer = <<>> ]
           s2 == IF s1.active = NoFile THEN createFile(s1) ELSE s1
       IN  appendTo(s2, s2.active, s.buffer)

\* ActivityLogger.syncFlush
syncFlush(s) ==
  IF s.buffer = <<>> \/ s.stream = NoStream THEN s
  ELSE LET s1 == [ s EXCEPT !.buffer = <<>> ]
           s2 == IF s1.active = NoFile THEN createFile(s1) ELSE s1
       IN  appendTo(s2, s2.active, s.buffer)

\* close that does not flush before it awaits the queue
closeBegin_NoFlush(s) ==
  [ s EXCEPT !.isClosing = TRUE, !.flushTimer = FALSE ]

\* ActivityLogger.close, up to its first await
closeBegin(s) ==
  flush([ s EXCEPT !.isClosing = TRUE, !.flushTimer = FALSE ])

\* close without the isClosing early return
close_NoGuard(s) ==
  /\ closeCalls' = closeCalls + 1
  /\ Commit(closeBegin(s)) /\ closePc' = "awaitFlush" /\ closeIds' = s.nextId

\* ActivityLogger.close as seen by one caller: a call made while isClosing is
\* set returns at once; the first call runs closeBegin and suspends at
\* `await this.flush()`
close(s) ==
  /\ closeCalls' = closeCalls + 1
  /\ IF s.isClosing
     THEN Commit(s) /\ UNCHANGED << closePc, closeIds >>
     ELSE Commit(closeBegin(s)) /\ closePc' = "awaitFlush" /\ closeIds' = s.nextId

\* ---------------------------------------------------------- initial state
\* What a previous run left in the file at currentLogPath.
PriorContents == { <<>>, << [id |-> 0, len |-> 2, level |-> LevelInfo] >> }

NotRenamed == [seen |-> FALSE, flushed |-> TRUE, ended |-> TRUE]

\* new ActivityLogger(config) followed by new LogRotator(config)
Init ==
  /\ config \in { [ buffering |-> [enabled |-> b], verbosity |-> v,
                    rotation |-> [enabled |-> TRUE, compress |-> FALSE],
                    excludedEvents |-> DefaultExcluded ] :
                  b \in BOOLEAN, v \in {LevelInfo, LevelWarn} }
  /\ \E prior \in PriorContents : inodes = << [content |-> prior, mtime |-> 0] >>
  /\ active = 1
  /\ streams = << [ino |-> 1, pending |-> <<>>, ending |-> FALSE, finished |-> FALSE, needDrain |-> FALSE] >>
  /\ stream = 1
  /\ buffer = <<>>
  /\ flushTimer = config.buffering.enabled
  /\ isClosing = FALSE
  /\ writeQueue = <<>>
  /\ closePc = "idle"
  /\ closeWait = 0
  /\ closeStream = NoStream
  /\ hookPc = "idle"
  /\ arch = {}
  /\ rotationInProgress = FALSE
  /\ now = 0
  /\ alive = TRUE
  /\ nextId = 0
  /\ closeCalls = 0
  /\ closeIds = -1
  /\ sigIds = -1
  /\ lateLog = FALSE
  /\ atRename = NotRenamed
  /\ lastRet = Null
  /\ extWrites = 0
  /\ archiveDir = FALSE
  /\ fault = NoFault
  /\ outcome = "none"
  /\ hooks = TRUE
  /\ serOut = NotSerialized
  /\ arg = 0
  /\ ret = 0

\* ------------------------------------------------------------------ actions
\* logger.log(entry), as called by the event, tool.execute.before, client.init
\* and hook.error hooks and by AgentLogger for the session start
Log(e) ==
  /\ alive
  /\ nextId < MaxRecords
  /\ Commit(log(Cur, e))
  /\ UNCHANGED << config, closePc, closeWait, closeStream, hookPc, now, alive,
                  closeCalls, closeIds, sigIds, atRename, lastRet, extWrites, aux >>

\* an explicit logger.flush()
Flush ==
  /\ alive
  /\ buffer # <<>>
  /\ Commit(flush(Cur))
  /\ UNCHANGED << config, closePc, closeWait, closeStream, hookPc, now, alive,
                  closeCalls, closeIds, sigIds, atRename, lastRet, extWrites, aux >>

\* a timer whose callback does not flush
TimerTick_NoFlush ==
  /\ alive
  /\ flushTimer
  /\ buffer # <<>>
  /\ UNCHANGED vars

\* the setInterval callback of setupPeriodicFlush
TimerTick ==
  /\ alive
  /\ flushTimer
  /\ buffer # <<>>
  /\ Commit(flush(Cur))
  /\ UNCHANGED << config, closePc, closeWait, closeStream, hookPc, now, alive,
                  closeCalls, closeIds, sigIds, atRename, lastRet, extWrites, aux >>

\* the .then callback flush() chained on writeQueue: the oldest unresolved task
\* issues its stream.write; with no stream, or on an ended stream, it resolves
\* with nothing written
runFlushTask(s) ==
  IF s.stream = NoStream \/ s.streams[s.stream].ending
  THEN [ s EXCEPT !.writeQueue = Tail(@) ]
  ELSE LET s1 == streamWrite(s, s.stream, s.writeQueue[1].lines)
       IN  [ s1 EXCEPT !.writeQueue[1].started = TRUE ]

RunFlushTask ==
  /\ alive
  /\ writeQueue # <<>>
  /\ ~writeQueue[1].started
  /\ Commit(runFlushTask(Cur))
  /\ closeWait' = IF Len(writeQueue') < Len(writeQueue) /\ closeWait > 0
                  THEN closeWait - 1 ELSE closeWait
  /\ UNCHANGED << config, closePc, closeStream, hookPc, now, alive,
                  closeCalls, closeIds, sigIds, atRename, lastRet, extWrites, aux >>

\* fs.WriteStream k completes its oldest chunk: the bytes are appended to the
\* file its descriptor refers to and the write callback runs, which resolves
\* the flush task that issued the chunk
\* writeDone on a stream that never emits 'drain'
writeDone_NoDrain(s, k) ==
  LET s1 == appendTo(s, s.streams[k].ino, s.streams[k].pending[1])
      s2 == [ s1 EXCEPT !.streams[k].pending = Tail(@) ]
  IN  IF s.writeQueue # <<>> /\ s.writeQueue[1].started
      THEN [ s2 EXCEPT !.writeQueue = Tail(@) ]
      ELSE s2

\* the stream emits 'drain' after a write when it holds no more bytes, owes a
\* drain and has not been ended
emitsDrain(st) ==
  /\ Len(st.pending) = 1
  /\ st.needDrain
  /\ ~st.ending

writeDone(s, k) ==
  LET s1 == appendTo(s, s.streams[k].ino, s.streams[k].pending[1])
      s2 == [ s1 EXCEPT !.streams[k].pending = Tail(@),
                        !.streams[k].needDrain = @ /\ ~emitsDrain(s.streams[k]) ]
  IN  IF s.writeQueue # <<>> /\ s.writeQueue[1].started
      THEN [ s2 EXCEPT !.writeQueue = Tail(@) ]
      ELSE s2

WriteDone(k) ==
  /\ alive
  /\ streams[k].pending # <<>>
  /\ Commit(writeDone(Cur, k))
  /\ closeWait' = IF Len(writeQueue') < Len(writeQueue) /\ closeWait > 0
                  THEN closeWait - 1 ELSE closeWait
  /\ UNCHANGED << config, closePc, closeStream, hookPc, now, alive,
                  closeCalls, closeIds, sigIds, atRename, lastRet, extWrites, aux >>

\* close() resumes after `await this.flush()` and awaits the writeQueue promise
\* it reads at that moment
CloseAwaitQueue ==
  /\ alive
  /\ closePc = "awaitFlush"
  /\ closePc' = "awaitQueue"
  /\ closeWait' = Len(writeQueue)
  /\ UNCHANGED << config, stream, buffer, flushTimer, isClosing, writeQueue,
                  closeStream, hookPc, streams, inodes, active, arch,
                  rotationInProgress, now, alive, nextId, closeCalls, closeIds,
                  sigIds, lateLog, atRename, lastRet, extWrites, archiveDir, aux >>

\* close() resumes after `await this.writeQueue`: stream.end(callback)
CloseEndStream ==
  /\ alive
  /\ closePc = "awaitQueue"
  /\ closeWait = 0
  /\ IF stream = NoStream
     THEN /\ closePc' = "done"
          /\ UNCHANGED << stream, streams, closeStream >>
     ELSE IF streams[stream].finished
     THEN /\ closePc' = "done"
          /\ stream' = NoStream
          /\ UNCHANGED << streams, closeStream >>
     ELSE /\ closePc' = "ending"
          /\ closeStream' = stream
          /\ streams' = streamEnd(Cur, stream).streams
          /\ UNCHANGED stream
  /\ UNCHANGED << config, buffer, flushTimer, isClosing, writeQueue, closeWait,
                  hookPc, inodes, active, arch, rotationInProgress, now, alive,
                  nextId, closeCalls, closeIds, sigIds, lateLog, atRename, lastRet,
                  extWrites, archiveDir, aux >>

\* an ended stream with nothing left to write emits 'finish'; the callback
\* close() gave to end() sets this.stream = null and resolves close()
StreamFinish(k) ==
  /\ alive
  /\ streams[k].ending
  /\ streams[k].pending = <<>>
  /\ ~streams[k].finished
  /\ streams' = [ streams EXCEPT ![k].finished = TRUE ]
  /\ IF closePc = "ending" /\ closeStream = k
     THEN stream' = NoStream /\ closePc' = "done"
     ELSE UNCHANGED << stream, closePc >>
  /\ UNCHANGED << config, buffer, flushTimer, isClosing, writeQueue, closeWait,
                  closeStream, hookPc, inodes, active, arch, rotationInProgress,
                  now, alive, nextId, closeCalls, closeIds, sigIds, lateLog,
                  atRename, lastRet, extWrites, archiveDir, aux >>

\* SIGINT / SIGTERM: the shutdown handler of setupGracefulShutdown calls
\* close() and drops its promise
Signal ==
  /\ alive
  /\ closeCalls < MaxCloseCalls
  /\ close(Cur)
  /\ sigIds' = IF sigIds = -1 THEN nextId ELSE sigIds
  /\ UNCHANGED << config, closeWait, closeStream, hookPc, now, alive, atRename,
                  lastRet, extWrites, aux >>

\* the plugin's close hook up to `await logger.close()`
CloseHook ==
  /\ alive
  /\ hookPc = "idle"
  /\ closeCalls < MaxCloseCalls
  /\ isClosing \/ nextId < MaxRecords
  /\ close(log(Cur, [level |-> LevelInfo, len |-> 1]))
  /\ hookPc' = IF isClosing THEN "returned" ELSE "awaitClose"
  /\ UNCHANGED << config, closeWait, closeStream, now, alive, sigIds, atRename,
                  lastRet, extWrites, aux >>

\* the close() call the hook awaits has resolved
HookCloseResolved ==
  hookPc = "returned" \/ (hookPc = "awaitClose" /\ closePc = "done")

\* the close hook after `await logger.close()`: rotator.cleanup()
CloseHookResume(ord) ==
  /\ alive
  /\ HookCloseResolved
  /\ hookPc' = "done"
  /\ Commit(cleanup(Cur, ord))
  /\ UNCHANGED << config, closePc, closeWait, closeStream, now, alive,
                  closeCalls, closeIds, sigIds, atRename, lastRet, extWrites, aux >>

\* the tool.execute.after hook: log the entry, checkRotation(currentPath) and,
\* when it returns a path, logger.rotate(newPath)
toolExecuteAfter(s, e, ord) ==
  LET s1 == log(s, e)
      r == checkRotation(s1, LogPath, ord, NoFault)
  IN  [ logged |-> s1, ret |-> r.ret,
        st |-> IF r.ret # Null THEN rotate(r.st, r.ret) ELSE r.st ]

ToolExecuteAfter(e, ord) ==
  /\ alive
  /\ isClosing \/ nextId + 2 <= MaxRecords
  /\ LET h == toolExecuteAfter(Cur, e, ord)
     IN  /\ h.ret # Null => Len(streams) < MaxStreams
         /\ Commit(h.st)
         /\ lastRet' = h.ret
         /\ atRename' =
              IF h.ret # Null
              THEN [ seen |-> TRUE,
                     flushed |-> h.logged.buffer = <<>>,
                     ended |-> h.logged.stream = NoStream
                               \/ h.logged.streams[h.logged.stream].ending ]
              ELSE atRename
  /\ UNCHANGED << config, closePc, closeWait, closeStream, hookPc, now, alive,
                  closeCalls, closeIds, sigIds, extWrites, aux >>

\* the process exits (process.exit(), or nothing left to run): the 'exit'
\* handler runs syncFlush, and whatever the streams still hold is never written
ProcessExit ==
  /\ alive
  /\ alive' = FALSE
  /\ Commit(syncFlush(Cur))
  /\ UNCHANGED << config, closePc, closeWait, closeStream, hookPc, now,
                  closeCalls, closeIds, sigIds, atRename, lastRet, extWrites, aux >>

Next ==
  \/ \E e \in Entries : Log(e)
  \/ Flush
  \/ TimerTick
  \/ RunFlushTask
  \/ \E k \in 1..Len(streams) : WriteDone(k)
  \/ CloseAwaitQueue
  \/ CloseEndStream
  \/ \E k \in 1..Len(streams) : StreamFinish(k)
  \/ Signal
  \/ CloseHook
  \/ \E ord \in DirOrders(Cardinality(Listed(arch))) : CloseHookResume(ord)
  \/ \E e \in Entries, ord \in DirOrders(Cardinality(Listed(Others(arch))) + 1) :
       ToolExecuteAfter(e, ord)
  \/ ProcessExit

Spec == Init /\ [][Next]_vars

\* the engine with a timer that keeps firing: setInterval runs its callback
\* again and again for as long as the timer is set
SpecLive == Spec /\ WF_vars(TimerTick)

\* ------------------------------------------------------------ observations
\* ids of the lines in the files (an unlinked file keeps its content here)
FileIds == UNION { Ids(inodes[k].content) : k \in 1..Len(inodes) }

\* the lines in the order they were written: file by file in creation order
WrittenOrder == Flatten([ k \in 1..Len(inodes) |-> inodes[k].content ])

\* the lines held by write requests the streams have not completed
PendingLines ==
  Flatten([ k \in 1..Len(streams) |-> Flatten(streams[k].pending) ])

\* the lines held by flush tasks that have not issued their write
QueuedLines ==
  Flatten([ i \in 1..Len(writeQueue) |->
              IF writeQueue[i].started THEN <<>> ELSE writeQueue[i].lines ])

\* every line the engine holds or has written, oldest stage first
Pipeline == WrittenOrder \o PendingLines \o QueuedLines \o buffer

Count(seq, id) == Cardinality({ i \in 1..Len(seq) : seq[i].id = id })

Increasing(seq) == \A i, j \in 1..Len(seq) : i < j => seq[i].id < seq[j].id

Rotated == Len(streams) > 1

\* C1: when the close() call that started the shutdown resolves, on a stream
\* that was never rotated, every record accepted before it is in the file, the
\* flush timer is stopped and the stream has been ended.
C1_CleanShutdown ==
  [][ (closePc # "done" /\ closePc' = "done" /\ ~Rotated')
        => /\ 1..closeIds \subseteq Ids(inodes'[1].content)
           /\ ~flushTimer'
           /\ stream' = NoStream
           /\ streams'[1].ending /\ streams'[1].finished /\ streams'[1].pending = <<>> ]_vars

C1_Witness ==
  /\ closePc = "done" /\ ~Rotated /\ alive
  /\ closeIds = MaxRecords
  /\ config.buffering.enabled

\* C2: with buffering enabled the lines reach the files in the order of their
\* log() calls, and a flush turns the whole buffer of that moment into one
\* write request, which is handed to the stream as one chunk.
C2_WriteOrdering ==
  /\ [](config.buffering.enabled
          => Increasing(WrittenOrder) /\ (alive => Increasing(Pipeline)))
  /\ [][ (config.buffering.enabled /\ Len(writeQueue') > Len(writeQueue))
           => /\ Len(writeQueue') = Len(writeQueue) + 1
              /\ SubSeq(writeQueue', 1, Len(writeQueue)) = writeQueue
              /\ LET t == writeQueue'[Len(writeQueue')].lines
                 IN  /\ Len(t) >= Len(buffer) /\ t # <<>>
                     /\ SubSeq(t, 1, Len(buffer)) = buffer
                     /\ Ids(buffer') \cap Ids(t) = {} ]_vars
  /\ [][ (config.buffering.enabled /\ writeQueue # <<>> /\ writeQueue' # <<>>
          /\ ~writeQueue[1].started /\ writeQueue'[1].started)
           => /\ stream # NoStream
              /\ streams'[stream].pending = << writeQueue[1].lines >> ]_vars

C2_Witness ==
  /\ config.buffering.enabled
  /\ Len(writeQueue) = 2 /\ writeQueue[1].started
  /\ Len(inodes[1].content) >= 2

\* C3: once close() has set isClosing no log() call is accepted: no step adds
\* a line to the buffer, the write queue, a stream or a file.
C3_NoLogAfterClose ==
  [][ isClosing => /\ nextId' = nextId
                   /\ Ids(Pipeline') \subseteq Ids(Pipeline) ]_vars

C3_Witness == lateLog /\ isClosing /\ nextId >= 1

\* C4: a close() call made after isClosing was set changes nothing: no write,
\* no flush, no second end() of the stream.
C4_CloseIdempotent ==
  [][ (isClosing /\ closeCalls' = closeCalls + 1)
        => UNCHANGED << stream, buffer, flushTimer, isClosing, writeQueue, streams,
                        inodes, active, arch, closePc, closeWait, closeStream >> ]_vars

C4_Witness == closeCalls = 2 /\ closePc = "done" /\ nextId >= 1

\* C5: every record accepted before SIGINT/SIGTERM is in a file once the
\* process has exited.
C5_NoLossOnSignal ==
  (~alive /\ sigIds >= 0) => 1..sigIds \subseteq FileIds

\* C6: when the signal handler returns the buffer is empty and its content is
\* on disk.
C6_SignalSyncFlush ==
  [][ (sigIds = -1 /\ sigIds' # -1)
        => buffer' = <<>> /\ Ids(buffer) \subseteq FileIds' ]_vars

\* C7: with buffering enabled the buffer never holds more than
\* highWatermarkBytes between two steps, and the log() call that makes it
\* exceed the watermark turns the whole buffer, new line included, into one
\* write request.
C7_WatermarkFlush ==
  /\ [](config.buffering.enabled => SumLen(buffer) <= highWatermarkBytes)
  /\ [][ \A e \in Entries :
           (Log(e) /\ ~isClosing /\ shouldLogLevel(e.level)
            /\ config.buffering.enabled /\ SumLen(buffer) + e.len > highWatermarkBytes)
             => /\ buffer' = <<>>
                /\ writeQueue' =
                     Append(writeQueue,
                            [ lines |-> Append(buffer, [id |-> nextId + 1, len |-> e.len,
                                                         level |-> e.level]),
                              started |-> FALSE ]) ]_vars

C7_Witness ==
  \E i \in 1..Len(writeQueue) :
    /\ SumLen(writeQueue[i].lines) > highWatermarkBytes
    /\ Len(writeQueue[i].lines) >= 2

\* C8: at every rename of the active file into the archive the buffer has been
\* flushed and the stream writing that file has been ended.
C8_FlushEndBeforeRename ==
  atRename.seen => atRename.flushed /\ atRename.ended

\* C9: every accepted record is held exactly once, in the buffer, in a flush
\* task, in a stream's write request or in a file; so once the engine is
\* quiescent each is in exactly one file, the archived one or the new one.
C9_ExactlyOnce ==
  \A id \in 1..nextId : Count(Pipeline, id) = 1

C9_Witness ==
  /\ Rotated /\ alive
  /\ buffer = <<>> /\ writeQueue = <<>> /\ PendingLines = <<>>
  /\ nextId = MaxRecords
  /\ \E k \in 1..Len(inodes) : \E e \in arch : e.ino = k /\ Ids(inodes[k].content) \cap (1..nextId) # {}
  /\ active # NoFile /\ Ids(inodes[active].content) # {}

\* the lines this run has put into the files
WrittenLines == SelectSeq(WrittenOrder, LAMBDA l : l.id >= 1)

\* C20: every line this run has written to a file, the engine's own
\* log_rotated record included, has a level >= the configured verbosity.
C20_WrittenLevels ==
  \A i \in 1..Len(WrittenLines) : WrittenLines[i].level >= config.verbosity

C20_Witness ==
  /\ config.verbosity = LevelWarn
  /\ Rotated
  /\ WrittenLines # <<>>
  /\ buffer = <<>> /\ writeQueue = <<>> /\ PendingLines = <<>>

\* ------------------------------------------------- the rotator on its own
\* A LogRotator driven directly, as its unit tests drive it: a file at
\* LogPath that something appends to, the clock, checkRotation and cleanup.
LongAgo == 0 - (maxAgeDays + 1)

\* The archive directory a test prepares before it calls the rotator: absent,
\* or maxFiles + 1 files, all named *.ndjson or all named *.ndjson.gz, each
\* either fresh or older than maxAgeDays.
ArchiveSetups ==
  { <<>> } \cup
  { [ i \in 1..(maxFiles + 1) |-> [gz |-> g, mtime |-> ms[i]] ] :
      g \in BOOLEAN, ms \in [ 1..(maxFiles + 1) -> {LongAgo, 0} ] }

ArchivedContent == << [id |-> 0, len |-> 1, level |-> LevelInfo] >>

InitRot ==
  /\ config \in { [ buffering |-> [enabled |-> TRUE], verbosity |-> LevelInfo,
                    rotation |-> [enabled |-> en, compress |-> c],
                    excludedEvents |-> DefaultExcluded ] :
                  en \in BOOLEAN, c \in BOOLEAN }
  /\ config.rotation.compress => config.rotation.enabled
  /\ \E setup \in ArchiveSetups :
       /\ inodes = << [content |-> <<>>, mtime |-> 0] >>
                     \o [ i \in 1..Len(setup) |->
                            [content |-> ArchivedContent, mtime |-> setup[i].mtime] ]
       /\ arch = { [ts |-> 0 - i, ino |-> i + 1, gz |-> setup[i].gz] : i \in 1..Len(setup) }
       /\ archiveDir = (setup # <<>>)
  /\ active = 1
  /\ streams = <<>>
  /\ stream = NoStream
  /\ buffer = <<>>
  /\ flushTimer = FALSE
  /\ isClosing = FALSE
  /\ writeQueue = <<>>
  /\ closePc = "idle"
  /\ closeWait = 0
  /\ closeStream = NoStream
  /\ hookPc = "idle"
  /\ rotationInProgress = FALSE
  /\ now = 0
  /\ alive = TRUE
  /\ nextId = 0
  /\ closeCalls = 0
  /\ closeIds = -1
  /\ sigIds = -1
  /\ lateLog = FALSE
  /\ atRename = NotRenamed
  /\ lastRet = Null
  /\ extWrites = 0
  /\ fault = NoFault
  /\ outcome = "none"
  /\ hooks = TRUE
  /\ serOut = NotSerialized
  /\ arg = 0
  /\ ret = 0

\* a line of length len is appended to the file at LogPath, which is created
\* when it is not there
AppendLine(len) ==
  /\ extWrites < MaxExtWrites
  /\ active = NoFile => Len(inodes) < MaxInodes
  /\ extWrites' = extWrites + 1
  /\ LET s1 == IF active = NoFile THEN createFile(Cur) ELSE Cur
     IN  Commit(appendTo(s1, s1.active, << [id |-> 0, len |-> len, level |-> LevelInfo] >>))
  /\ UNCHANGED << config, closePc, closeWait, closeStream, hookPc, now, alive,
                  closeCalls, closeIds, sigIds, atRename, lastRet, aux >>

\* the file at LogPath is larger than rotation.maxSizeMB
Oversize == active # NoFile /\ Size(Cur, active) > maxSizeMB

\* rotator.checkRotation(LogPath), struck by fault f
CheckRotationCall(ord, f) ==
  /\ LET r == checkRotation(Cur, LogPath, ord, f)
     IN  Commit(r.st) /\ lastRet' = r.ret
  /\ fault' = f
  /\ outcome' = IF checkRotation(Cur, LogPath, ord, f).ret = Thrown
                THEN "threw" ELSE "returned"
  /\ UNCHANGED << config, closePc, closeWait, closeStream, hookPc, now, alive,
                  closeCalls, closeIds, sigIds, atRename, extWrites, hooks, serOut,
                  arg, ret >>

\* rotator.cleanup()
CleanupCall(ord) ==
  /\ Commit(cleanup(Cur, ord))
  /\ UNCHANGED << config, closePc, closeWait, closeStream, hookPc, now, alive,
                  closeCalls, closeIds, sigIds, atRename, lastRet, extWrites, aux >>

\* time passes
Tick ==
  /\ now < MaxTime
  /\ now' = now + 1
  /\ UNCHANGED << config, stream, buffer, flushTimer, isClosing, writeQueue,
                  closePc, closeWait, closeStream, hookPc, streams, inodes, active,
                  arch, rotationInProgress, alive, nextId, closeCalls, closeIds,
                  sigIds, lateLog, atRename, lastRet, extWrites, archiveDir, aux >>

NextRot ==
  \/ \E len \in 1..2 : AppendLine(len)
  \/ \E ord \in DirOrders(Cardinality(Listed(Others(arch))) + 1),
        f \in (IF Oversize THEN RotateFaults ELSE {NoFault}) :
       CheckRotationCall(ord, f)
  \/ \E ord \in DirOrders(Cardinality(Listed(arch))) : CleanupCall(ord)
  \/ Tick

SpecRot == InitRot /\ [][NextRot]_vars

ArchNames(a) == { e.ts : e \in a }

RetentionTakesIt ==
  \/ inodes[active].mtime < now - maxAgeDays
  \/ Cardinality({ e \in Listed(arch) : e.ts # now
                                /\ inodes[e.ino].mtime >= inodes[active].mtime }) >= maxFiles

C38_PathMeansRenamed ==
  [][ \A ord \in Perms(MaxInodes), f \in RotateFaults :
        (fault' = f /\ CheckRotationCall(ord, f) /\ lastRet' = LogPath)
          => /\ active # NoFile /\ active' = NoFile
             /\ now \notin ArchNames(arch)
             /\ arch' \ arch \subseteq { [ts |-> now, ino |-> active, gz |-> FALSE] }
             /\ \/ [ts |-> now, ino |-> active, gz |-> FALSE] \in arch'
                \/ RetentionTakesIt ]_vars

\* ------------------------------------------------- cleanup, unlink by unlink
\* unlinkSync(path) of archive entry e: ENOENT when the entry is already gone
unlinkSync(a, e) == [ arch |-> a \ {e}, thrown |-> e \notin a ]

\* files.forEach((f) => { unlinkSync(f.path) }) with no try around the call:
\* the first failing unlink ends the loop
RECURSIVE forEachUnlink_NoCatch(_, _)
forEachUnlink_NoCatch(r, files) ==
  IF files = <<>> \/ r.thrown THEN r
  ELSE forEachUnlink_NoCatch(unlinkSync(r.arch, files[1]), Tail(files))

\* files.forEach((f) => { try { unlinkSync(f.path) } catch { ... } })
RECURSIVE forEachUnlink(_, _)
forEachUnlink(a, files) ==
  IF files = <<>> THEN a
  ELSE forEachUnlink(unlinkSync(a, files[1]).arch, Tail(files))

\* the files cleanup unlinks: first those beyond maxFiles in newest-first
\* order, then those older than maxAgeDays
overflowFiles(files) == SubSeq(files, maxFiles + 1, Len(files))

expiredFiles(s, files) ==
  SelectSeq(files, LAMBDA f : s.inodes[f.ino].mtime < now - maxAgeDays)

\* cleanup with the unlinks outside any try block
cleanupOutcome_NoCatch(s, ord) ==
  IF ~config.rotation.enabled \/ ~s.archiveDir THEN [st |-> s, thrown |-> FALSE]
  ELSE LET files == sortNewestFirst(s, readdirSync(Listed(s.arch), ord))
           r1 == forEachUnlink_NoCatch([arch |-> s.arch, thrown |-> FALSE],
                                       overflowFiles(files))
           r2 == forEachUnlink_NoCatch(r1, expiredFiles(s, files))
       IN  [st |-> [ s EXCEPT !.arch = r2.arch ], thrown |-> r2.thrown]

\* LogRotator.cleanup, one unlinkSync after the other, and whether an
\* exception leaves the call
cleanupOutcome(s, ord) ==
  IF ~config.rotation.enabled \/ ~s.archiveDir THEN [st |-> s, thrown |-> FALSE]
  ELSE LET files == sortNewestFirst(s, readdirSync(Listed(s.arch), ord))
           a1 == forEachUnlink(s.arch, overflowFiles(files))
           a2 == forEachUnlink(a1, expiredFiles(s, files))
       IN  [st |-> [ s EXCEPT !.arch = a2 ], thrown |-> FALSE]

\* C40: cleanup() never throws, a second run right after the first deletes
\* nothing more, whatever the directory orders, files beyond the count cap
\* that are also older than the age cap included; with rotation disabled it
\* deletes nothing.
C40_CleanupIdempotentTotal ==
  \A o1, o2 \in DirOrders(Cardinality(Listed(arch))) :
    LET once == cleanupOutcome(Cur, o1)
        twice == cleanupOutcome(once.st, o2)
    IN  /\ ~once.thrown /\ ~twice.thrown
        /\ twice.st = once.st
        /\ once.st = cleanup(Cur, o1)
        /\ once.st.arch \subseteq arch
        /\ ~config.rotation.enabled => once.st = Cur

\* the archive holds a file that is both beyond the count cap and older than
\* the age cap, next to one that is only expired
C40_Witness ==
  /\ config.rotation.enabled /\ archiveDir
  /\ \E ord \in DirOrders(Cardinality(Listed(arch))) :
       LET files == sortNewestFirst(Cur, readdirSync(Listed(arch), ord))
       IN  /\ \E i \in 1..Len(overflowFiles(files)) :
                inodes[overflowFiles(files)[i].ino].mtime < now - maxAgeDays
           /\ Len(expiredFiles(Cur, files)) >= 2

\* ------------------------------------------------------ rotator: C11 .. C16
\* C11: with rotation.enabled false, checkRotation returns nothing whatever
\* the file size and changes nothing on disk: no rename, no archive
\* directory, no deletion.
C11_DisabledNoOp ==
  [][ \A ord \in Perms(MaxInodes), f \in RotateFaults :
        (~config.rotation.enabled /\ fault' = f /\ CheckRotationCall(ord, f))
          => /\ lastRet' = Null
             /\ UNCHANGED << active, inodes, arch, archiveDir, rotationInProgress >> ]_vars

C11_Witness ==
  /\ ~config.rotation.enabled
  /\ Oversize
  /\ outcome = "returned" /\ lastRet = Null
  /\ ~archiveDir /\ arch = {}

\* the state a checkRotation call would find were it made inside a rotation
InRotation == [ Cur EXCEPT !.rotationInProgress = TRUE ]

\* the calls that failed: the file was oversize and the rename did not happen
RotationFailed ==
  /\ fault \in {"vanishLate", "renameFails"}
  /\ outcome = "returned" /\ lastRet = Null
  /\ config.rotation.enabled

\* C12: a checkRotation call made while rotationInProgress is set returns
\* nothing and renames nothing; the guard is cleared whenever a rotation has
\* finished, succeeded or failed, and a rotation attempted after a failed one
\* proceeds.
C12_RotationGuard ==
  /\ [](~rotationInProgress)
  /\ [](\A ord \in Perms(MaxInodes), f \in RotateFaults :
          checkRotation(InRotation, LogPath, ord, f) = [st |-> InRotation, ret |-> Null])
  /\ [][ \A ord \in Perms(MaxInodes) :
           (RotationFailed /\ Oversize /\ fault' = NoFault /\ CheckRotationCall(ord, NoFault))
             => lastRet' = LogPath /\ active' = NoFile ]_vars

C12_Witness ==
  /\ fault = "renameFails" /\ RotationFailed
  /\ Oversize
  /\ ~rotationInProgress

\* no archived file is older than the age cutoff
AllFresh == \A e \in arch : inodes[e.ino].mtime >= now - maxAgeDays

\* C13: cleanup() on N > maxFiles archived files, none older than the age
\* cutoff and named *.ndjson or *.ndjson.gz, leaves exactly maxFiles of them,
\* the most recently modified ones.
C13_RetentionByCount ==
  \A ord \in Perms(MaxInodes) :
    (config.rotation.enabled /\ AllFresh /\ Cardinality(arch) > maxFiles)
      => LET left == cleanup(Cur, ord).arch
         IN  /\ left \subseteq arch
             /\ Cardinality(left) = maxFiles
             /\ \A kept \in left, dropped \in arch \ left :
                  inodes[kept.ino].mtime >= inodes[dropped.ino].mtime

\* C14: cleanup() deletes every archived file, named *.ndjson or *.ndjson.gz,
\* whose modification time is more than maxAgeDays in the past, however many
\* archived files there are.
C14_RetentionByAge ==
  \A ord \in Perms(MaxInodes) :
    config.rotation.enabled
      => \A e \in arch :
           inodes[e.ino].mtime < now - maxAgeDays => e \notin cleanup(Cur, ord).arch

\* C15: a rotation with rotation.compress set leaves the archived file as one
\* *.ndjson.gz file and no uncompressed copy; without compress it leaves the
\* uncompressed *.ndjson file; either way the archived bytes are those of the
\* rotated file.
C15_CompressedArchive ==
  [][ \A ord \in Perms(MaxInodes) :
        (config.rotation.enabled /\ Oversize /\ fault' = NoFault
         /\ CheckRotationCall(ord, NoFault))
          => \A e \in arch' \ arch :
               /\ e.gz = config.rotation.compress
               /\ inodes'[e.ino].content = inodes[active].content ]_vars

\* C16: when the file vanishes between the size check and the rename,
\* checkRotation does not throw, leaves the guard cleared, adds nothing to the
\* archive and leaves the content of the archived files as it was.
C16_VanishedFile ==
  [][ \A ord \in Perms(MaxInodes), f \in {"vanishEarly", "vanishLate"} :
        (config.rotation.enabled /\ Oversize /\ fault' = f /\ CheckRotationCall(ord, f))
          => /\ outcome' = "returned"
             /\ lastRet' # Thrown
             /\ ~rotationInProgress'
             /\ active' = NoFile
             /\ arch' \subseteq arch
             /\ \A e \in arch : inodes'[e.ino] = inodes[e.ino] ]_vars

C16_Witness ==
  /\ fault \in {"vanishEarly", "vanishLate"}
  /\ outcome = "returned"
  /\ config.rotation.enabled
  /\ active = NoFile /\ arch # {}
  /\ ~rotationInProgress

\* a is an initial segment of b
IsPrefix(a, b) == Len(a) <= Len(b) /\ SubSeq(b, 1, Len(a)) = a

\* no file of state s has lost or changed a byte in state s1
OnlyAppended(s, s1) ==
  /\ Len(s1.inodes) >= Len(s.inodes)
  /\ \A k \in 1..Len(s.inodes) : IsPrefix(s.inodes[k].content, s1.inodes[k].content)

\* C30: no engine operation truncates or overwrites bytes already in an
\* output file: every step leaves each file's earlier content as a prefix of
\* its content, and opening the stream or flushing synchronously, on the
\* files as they are at any moment, does so too.
C30_AppendOnly ==
  /\ [][ Len(inodes') >= Len(inodes)
         /\ \A k \in 1..Len(inodes) : IsPrefix(inodes[k].content, inodes'[k].content) ]_vars
  /\ [](OnlyAppended(Cur, initializeStream(Cur)) /\ OnlyAppended(Cur, syncFlush(Cur)))

\* the file found at start has been appended to, rotated away, and its
\* successor has been written
C30_Witness ==
  /\ Len(inodes) >= 2
  /\ Len(inodes[1].content) >= 2
  /\ inodes[1].content[1].id = 0
  /\ inodes[2].content # <<>>
  /\ active = 2

\* the engine holds no stream, or one on which end() was called
StreamEnded == stream = NoStream \/ streams[stream].ending

\* C32: the lifecycle is one-way: once close() has been invoked isClosing
\* stays set and the flush timer stays cleared, and once close() has ended
\* the stream no step makes the engine hold an open stream again.
C32_LifecycleOneWay ==
  [][ /\ isClosing => isClosing' /\ ~flushTimer'
      /\ (closePc \in {"ending", "done"} /\ StreamEnded)
           => (stream' = NoStream \/ streams'[stream'].ending) ]_vars

\* the ids of the lines handed to the file writer: in a flush task, in a
\* stream's write request or in a file
HandedIds == Ids(QueuedLines) \cup Ids(PendingLines) \cup FileIds
  \cup UNION { Ids(writeQueue[i].lines) : i \in 1..Len(writeQueue) }

\* C33: with the timer set and the stream open, a tick hands the whole
\* buffer to the file writer as one write request, and under fair timer
\* firing every record in the buffer is eventually handed over.
C33_PeriodicFlush ==
  /\ [][ (flushTimer /\ stream # NoStream /\ buffer # <<>> /\ TimerTick)
          => /\ buffer' = <<>>
             /\ writeQueue' = Append(writeQueue, [lines |-> buffer, started |-> FALSE]) ]_vars
  /\ \A id \in 1..MaxRecords : (id \in Ids(buffer)) ~> (id \in HandedIds)

\* a buffer that had not reached the watermark has become a flush task while
\* the engine is active
C33_Witness ==
  /\ config.buffering.enabled
  /\ ~isClosing
  /\ flushTimer
  /\ buffer = <<>>
  /\ \E i \in 1..Len(writeQueue) :
       /\ ~writeQueue[i].started
       /\ SumLen(writeQueue[i].lines) <= highWatermarkBytes

\* ------------------------------------------------------ close() as a barrier
\* this step resolves a close() call: the one that runs the body reaches the
\* end() callback, or the close hook's call returns at the isClosing check
CloseResolves ==
  \/ closePc # "done" /\ closePc' = "done"
  \/ hookPc = "idle" /\ hookPc' = "returned"

\* C36: when any close() call resolves, a second one made while the first is
\* still draining included, every record accepted before the shutdown is in
\* the file and the stream has been ended (stated for a stream that was never
\* rotated).
C36_EveryCloseIsBarrier ==
  [][ (CloseResolves /\ ~Rotated')
        => /\ 1..closeIds \subseteq Ids(inodes'[1].content)
           /\ streams'[1].ending ]_vars

\* ------------------------------------------------------------ backpressure
\* the streams holding, as their oldest chunk, the write of the oldest flush task
taskStreams ==
  { k \in 1..Len(streams) : /\ streams[k].pending # <<>>
                            /\ streams[k].pending[1] = writeQueue[1].lines }

\* the oldest flush task has issued a write that returned false
Backpressured ==
  /\ writeQueue # <<>>
  /\ writeQueue[1].started
  /\ \E k \in taskStreams : streams[k].needDrain

\* this step marks the oldest flush task complete
Resolved ==
  \/ writeQueue' = <<>>
  \/ writeQueue'[1].lines # writeQueue[1].lines

\* no flush task behind the oldest one has started its write
OneWriteAtATime == \A i \in 2..Len(writeQueue) : ~writeQueue[i].started

\* C34 as stated: a flush whose write() returned false is marked complete
\* only in a step in which its stream emits 'drain', and no later flush has
\* started its write before that.
C34_ResolvedOnDrain ==
  /\ []OneWriteAtATime
  /\ [][ (Backpressured /\ Resolved)
           => \A k \in taskStreams : ~streams'[k].needDrain ]_vars

\* C34, amended: a flush whose write() returned false is marked complete only
\* in the step in which its stream finishes writing that chunk, no later flush
\* has started its write before that, and unless the stream was ended
\* meanwhile the stream emits 'drain' in that same step.
C34_ResolvedOnWriteCompletion ==
  /\ []OneWriteAtATime
  /\ [][ (Backpressured /\ Resolved)
           => \A k \in taskStreams :
                /\ streams'[k].pending = Tail(streams[k].pending)
                /\ Ids(writeQueue[1].lines) \subseteq Ids(inodes'[streams[k].ino].content)
                /\ ~streams[k].ending => ~streams'[k].needDrain ]_vars

\* a flush waits on a write that returned false while another flush is queued
\* behind it
C34_Witness ==
  /\ Backpressured
  /\ Len(writeQueue) >= 2
  /\ \A k \in taskStreams : ~streams[k].ending

\* ------------------------------------------------------ JSON-like values
\* A value handed to the serializers: null, undefined, a string (a sequence
\* of characters), an array, or an object given by its keys in insertion
\* order and their values.
JNull == [kind |-> "null", str |-> <<>>, keys |-> <<>>, vals |-> <<>>]

JUndefined == [kind |-> "undefined", str |-> <<>>, keys |-> <<>>, vals |-> <<>>]

JStr(chars) == [kind |-> "string", str |-> chars, keys |-> <<>>, vals |-> <<>>]

JArr(vals) == [kind |-> "array", str |-> <<>>, keys |-> <<>>, vals |-> vals]

JObj(keys, vals) == [kind |-> "object", str |-> <<>>, keys |-> keys, vals |-> vals]

\* typeof v === 'object' && v !== null
IsObject(v) == v.kind \in {"object", "array"}

UpperCase == << "A", "E", "I", "K", "N", "O", "P", "T", "Y" >>

LowerCase == << "a", "e", "i", "k", "n", "o", "p", "t", "y" >>

\* String.prototype.toLowerCase, character by character
keyToLowerCase(key) ==
  [ i \in 1..Len(key) |->
      IF \E j \in 1..Len(UpperCase) : UpperCase[j] = key[i]
      THEN LowerCase[CHOOSE j \in 1..Len(UpperCase) : UpperCase[j] = key[i]]
      ELSE key[i] ]

\* String.prototype.includes
includes(str, sub) ==
  \E i \in 0..(Len(str) - Len(sub)) : SubSeq(str, i + 1, i + Len(sub)) = sub

SENSITIVE_FIELDS ==
  { << "p", "a", "s", "s", "w", "o", "r", "d" >>,
    << "t", "o", "k", "e", "n" >>,
    << "s", "e", "c", "r", "e", "t" >>,
    << "k", "e", "y" >>,
    << "a", "p", "i", "_", "k", "e", "y" >>,
    << "a", "u", "t", "h" >>,
    << "c", "r", "e", "d", "e", "n", "t", "i", "a", "l" >> }

\* SENSITIVE_FIELDS.some(field => key.toLowerCase().includes(field.toLowerCase()))
isSensitive(key) ==
  \E field \in SENSITIVE_FIELDS : includes(keyToLowerCase(key), keyToLowerCase(field))

\* the string '***REDACTED***'
REDACTED == JStr(<< "***REDACTED***" >>)

\* sanitizeArgs that compares the key as written, without toLowerCase
RECURSIVE sanitizeArgs_CaseSensitive(_)
sanitizeArgs_CaseSensitive(args) ==
  IF ~IsObject(args) THEN args
  ELSE IF args.kind = "array"
  THEN [ args EXCEPT !.vals = [ i \in 1..Len(args.vals) |->
                                  sanitizeArgs_CaseSensitive(args.vals[i]) ] ]
  ELSE [ args EXCEPT !.vals =
           [ i \in 1..Len(args.vals) |->
               IF \E field \in SENSITIVE_FIELDS : includes(args.keys[i], field)
               THEN REDACTED
               ELSE IF IsObject(args.vals[i])
               THEN sanitizeArgs_CaseSensitive(args.vals[i])
               ELSE args.vals[i] ] ]

\* sanitizeArgs
RECURSIVE sanitizeArgs(_)
sanitizeArgs(args) ==
  IF ~IsObject(args) THEN args
  ELSE IF args.kind = "array"
  THEN [ args EXCEPT !.vals = [ i \in 1..Len(args.vals) |-> sanitizeArgs(args.vals[i]) ] ]
  ELSE [ args EXCEPT !.vals =
           [ i \in 1..Len(args.vals) |->
               IF isSensitive(args.keys[i]) THEN REDACTED
               ELSE IF IsObject(args.vals[i]) THEN sanitizeArgs(args.vals[i])
               ELSE args.vals[i] ] ]

\* The keys of the checked arguments: cmd, Token (sensitive once lowered) and
\* monkey (sensitive by the substring key).
KeyCmd == << "c", "m", "d" >>

KeyToken == << "T", "o", "k", "e", "n" >>

KeyMonkey == << "m", "o", "n", "k", "e", "y" >>

ArgKeys == { KeyCmd, KeyToken, KeyMonkey }

\* the key pairs of the two-key objects, in insertion order
ArgKeyPairs == { << KeyCmd, KeyToken >>, << KeyMonkey, KeyCmd >>, << KeyToken, KeyMonkey >> }

ArgLeaves == { JStr(<< "a" >>), JStr(<< "b" >>) }

\* leaves, one-key objects and one-element arrays over vs
Wrap(vs) ==
  vs \cup { JObj(<< k >>, << v >>) : k \in ArgKeys, v \in vs }
     \cup { JArr(<< v >>) : v \in vs }

\* The arguments sanitizeArgs is called with: values nested up to three deep
\* inside objects and arrays, with up to two keys at the top.
SanInputs ==
  { JNull } \cup Wrap(Wrap(Wrap(ArgLeaves)))
    \cup { JObj(p, << v, w >>) : p \in ArgKeyPairs,
                                 v \in Wrap(ArgLeaves), w \in Wrap(ArgLeaves) }

\* the engine at rest, for the specifications that only call pure functions
EngineIdle ==
  /\ config = [ buffering |-> [enabled |-> TRUE], verbosity |-> LevelInfo,
                rotation |-> [enabled |-> TRUE, compress |-> FALSE],
                excludedEvents |-> DefaultExcluded ]
  /\ inodes = << [content |-> <<>>, mtime |-> 0] >>
  /\ arch = {}
  /\ archiveDir = FALSE
  /\ active = 1
  /\ streams = <<>>
  /\ stream = NoStream
  /\ buffer = <<>>
  /\ flushTimer = FALSE
  /\ isClosing = FALSE
  /\ writeQueue = <<>>
  /\ closePc = "idle"
  /\ closeWait = 0
  /\ closeStream = NoStream
  /\ hookPc = "idle"
  /\ rotationInProgress = FALSE
  /\ now = 0
  /\ alive = TRUE
  /\ nextId = 0
  /\ closeCalls = 0
  /\ closeIds = -1
  /\ sigIds = -1
  /\ lateLog = FALSE
  /\ atRename = NotRenamed
  /\ lastRet = Null
  /\ extWrites = 0
  /\ fault = NoFault
  /\ hooks = TRUE
  /\ serOut = NotSerialized

\* a call of a pure function with the argument a, returning r
Called(a, r) ==
  /\ arg' = a
  /\ ret' = r
  /\ outcome' = "returned"
  /\ UNCHANGED << config, stream, buffer, flushTimer, isClosing, writeQueue, closePc,
                  closeWait, closeStream, hookPc, streams, inodes, active, arch,
                  rotationInProgress, now, alive, nextId, closeCalls, closeIds,
                  sigIds, lateLog, atRename, lastRet, extWrites, archiveDir, fault,
                  hooks, serOut >>

InitSan ==
  /\ EngineIdle
  /\ arg = JNull
  /\ ret = JNull
  /\ outcome = "none"

SanitizeArgs(a) == Called(a, sanitizeArgs(a))

NextSan == \E a \in SanInputs : SanitizeArgs(a)

SpecSan == InitSan /\ [][NextSan]_vars

\* a and b differ at most in the values stored under sensitive keys
RECURSIVE SameButSensitive(_, _)
SameButSensitive(a, b) ==
  /\ a.kind = b.kind
  /\ a.str = b.str
  /\ a.keys = b.keys
  /\ Len(a.vals) = Len(b.vals)
  /\ \A i \in 1..Len(a.vals) :
       \/ a.kind = "object" /\ isSensitive(a.keys[i])
       \/ SameButSensitive(a.vals[i], b.vals[i])

\* in r every sensitive key of a holds the marker and everything else of a
\* is as it was
RECURSIVE OnlySecretsMarked(_, _)
OnlySecretsMarked(a, r) ==
  /\ r.kind = a.kind
  /\ r.str = a.str
  /\ r.keys = a.keys
  /\ Len(r.vals) = Len(a.vals)
  /\ \A i \in 1..Len(a.vals) :
       IF a.kind = "object" /\ isSensitive(a.keys[i])
       THEN r.vals[i] = REDACTED
       ELSE OnlySecretsMarked(a.vals[i], r.vals[i])

\* C21: two arguments of sanitizeArgs that differ only in the values under
\* keys whose lowercase form contains a sensitive word, at any depth inside
\* objects and arrays, give equal results; every such key holds
\* '***REDACTED***' in the result and every other leaf is unchanged.
C21_RedactionValueIndependent ==
  outcome = "returned" =>
    /\ OnlySecretsMarked(arg, ret)
    /\ \A b \in SanInputs : SameButSensitive(arg, b) => sanitizeArgs(b) = ret

C21_Witness ==
  /\ outcome = "returned"
  /\ arg.kind = "object"
  /\ arg.keys = << KeyCmd >>
  /\ arg.vals[1].kind = "array"
  /\ arg.vals[1].vals[1].kind = "object"
  /\ arg.vals[1].vals[1].keys = << KeyToken >>
  /\ ret # arg

\* ----------------------------------------------------------- truncation
\* the default of truncateOutput's maxLength (10000), scaled by 1/100
maxLength == 100

JTrue == [kind |-> "true", str |-> <<>>, keys |-> <<>>, vals |-> <<>>]

DecimalDigits == << "0", "1", "2", "3", "4", "5", "6", "7", "8", "9" >>

\* the decimal digits of n, as `${n}` and JSON.stringify write a number
RECURSIVE Digits(_)
Digits(n) ==
  IF n < 10 THEN << DecimalDigits[n + 1] >>
  ELSE Digits(n \div 10) \o << DecimalDigits[(n % 10) + 1] >>

JNum(n) == [kind |-> "number", str |-> Digits(n), keys |-> <<>>, vals |-> <<>>]

KeyOutput == << "o", "u", "t", "p", "u", "t" >>

KeyTruncated == << "t", "r", "u", "n", "c", "a", "t", "e", "d" >>

KeyOriginalLength == << "o", "r", "i", "g", "i", "n", "a", "l", "_", "l", "e", "n", "g", "t", "h" >>

KeyError == << "e", "r", "r", "o", "r" >>

KeyExtra == << "e", "x", "t", "r", "a" >>

\* whether obj has the key
Has(obj, key) == \E i \in 1..Len(obj.keys) : obj.keys[i] = key

\* obj[key]
Get(obj, key) ==
  IF obj.kind = "object" /\ Has(obj, key)
  THEN obj.vals[CHOOSE i \in 1..Len(obj.keys) : obj.keys[i] = key]
  ELSE JUndefined

\* { ...obj, [key]: val }: an existing key keeps its place, a new one is last
Set(obj, key, val) ==
  IF Has(obj, key)
  THEN [ obj EXCEPT !.vals[CHOOSE i \in 1..Len(obj.keys) : obj.keys[i] = key] = val ]
  ELSE [ obj EXCEPT !.keys = Append(@, key), !.vals = Append(@, val) ]

\* the characters of str with the quote and the backslash escaped and line
\* feeds left as they are
RECURSIVE escape_Raw(_)
escape_Raw(str) ==
  IF str = <<>> THEN <<>>
  ELSE IF Len(str) = 1
  THEN (IF str[1] = "\"" THEN << "\\", "\"" >>
        ELSE IF str[1] = "\\" THEN << "\\", "\\" >>
        ELSE str)
  ELSE escape_Raw(SubSeq(str, 1, Len(str) \div 2))
         \o escape_Raw(SubSeq(str, Len(str) \div 2 + 1, Len(str)))

\* the characters of a string as JSON.stringify writes them: the quote, the
\* backslash and the line feed escaped
RECURSIVE escape(_)
escape(str) ==
  IF str = <<>> THEN <<>>
  ELSE IF Len(str) = 1
  THEN (IF str[1] = "\"" THEN << "\\", "\"" >>
        ELSE IF str[1] = "\\" THEN << "\\", "\\" >>
        ELSE IF str[1] = "\n" THEN << "\\", "n" >>
        ELSE str)
  ELSE escape(SubSeq(str, 1, Len(str) \div 2))
         \o escape(SubSeq(str, Len(str) \div 2 + 1, Len(str)))

\* JSON.stringify(v), for keys without characters that need escaping;
\* undefined members of an object are left out, undefined elements of an
\* array are written as null
RECURSIVE stringify(_)
RECURSIVE stringifyMembers(_, _)
RECURSIVE stringifyElements(_)
stringifyMembers(obj, i) ==
  IF i > Len(obj.keys) THEN <<>>
  ELSE LET rest == stringifyMembers(obj, i + 1)
       IN  IF obj.vals[i].kind = "undefined" THEN rest
           ELSE << "\"" >> \o obj.keys[i] \o << "\"", ":" >> \o stringify(obj.vals[i])
                  \o (IF rest = <<>> THEN <<>> ELSE << "," >> \o rest)

stringifyElements(vals) ==
  IF vals = <<>> THEN <<>>
  ELSE (IF vals[1].kind = "undefined" THEN << "n", "u", "l", "l" >> ELSE stringify(vals[1]))
         \o (IF Len(vals) = 1 THEN <<>> ELSE << "," >> \o stringifyElements(Tail(vals)))

stringify(v) ==
  CASE v.kind = "null" -> << "n", "u", "l", "l" >>
    [] v.kind = "true" -> << "t", "r", "u", "e" >>
    [] v.kind = "number" -> v.str
    [] v.kind = "string" -> << "\"" >> \o escape(v.str) \o << "\"" >>
    [] v.kind = "array" -> << "[" >> \o stringifyElements(v.vals) \o << "]" >>
    [] v.kind = "object" -> << "{" >> \o stringifyMembers(v, 1) \o << "}" >>

\* `... [truncated ${n} chars]`
TruncationMarker(n) ==
  << ".", ".", ".", " ", "[", "t", "r", "u", "n", "c", "a", "t", "e", "d", " " >> \o Digits(n) \o << " ", "c", "h", "a", "r", "s", "]" >>

\* { _truncated: true, _original_size, _summary, preview }
Summary(resultStr) ==
  JObj(<< << "_", "t", "r", "u", "n", "c", "a", "t", "e", "d" >>,
          << "_", "o", "r", "i", "g", "i", "n", "a", "l", "_", "s", "i", "z", "e" >>,
          << "_", "s", "u", "m", "m", "a", "r", "y" >>,
          << "p", "r", "e", "v", "i", "e", "w" >> >>,
       << JTrue,
          JNum(Len(resultStr)),
          JStr(<< "Output was too large and was truncated" >>),
          JStr(SubSeq(resultStr, 1, maxLength) \o << ".", ".", "." >>) >>)

\* truncateOutput that also truncates an output of exactly maxLength
\* characters
truncateOutput_Ge(result) ==
  IF ~IsObject(result) THEN result
  ELSE LET output == Get(result, KeyOutput)
           resultStr == stringify(result)
       IN  IF output.kind = "string" /\ Len(output.str) >= maxLength
           THEN Set(Set(Set(result, KeyOutput,
                            JStr(SubSeq(output.str, 1, maxLength)
                                   \o TruncationMarker(Len(output.str) - maxLength))),
                        KeyTruncated, JTrue),
                    KeyOriginalLength, JNum(Len(output.str)))
           ELSE IF Len(resultStr) > maxLength * 2 THEN Summary(resultStr)
           ELSE result

\* truncateOutput(result), with the default maxLength
truncateOutput(result) ==
  IF ~IsObject(result) THEN result
  ELSE LET output == Get(result, KeyOutput)
           resultStr == stringify(result)
       IN  IF output.kind = "string" /\ Len(output.str) > maxLength
           THEN Set(Set(Set(result, KeyOutput,
                            JStr(SubSeq(output.str, 1, maxLength)
                                   \o TruncationMarker(Len(output.str) - maxLength))),
                        KeyTruncated, JTrue),
                    KeyOriginalLength, JNum(Len(output.str)))
           ELSE IF Len(resultStr) > maxLength * 2 THEN Summary(resultStr)
           ELSE result

Alphabet == << "a", "b", "c", "d", "e", "f", "g" >>

\* a string of n characters that differ from their neighbours
Text(n) == [ i \in 1..n |-> Alphabet[(i % Len(Alphabet)) + 1] ]

\* the lengths of the `output` strings and of the other field of a result,
\* around maxLength and 2 * maxLength
OutputLengths ==
  { 0, 1, maxLength \div 2, maxLength - 1, maxLength, maxLength + 1, maxLength + 2,
    maxLength + maxLength \div 2, 2 * maxLength - 1, 2 * maxLength, 2 * maxLength + 1,
    2 * maxLength + maxLength \div 2 }

ExtraLengths ==
  { 0, maxLength \div 2, maxLength, maxLength + maxLength \div 2, 2 * maxLength - 14,
    2 * maxLength - 13, 2 * maxLength + maxLength \div 2 }

\* The results truncateOutput is called with: nothing, a string, an array, and
\* objects with or without a string `output` and another field.
TruncInputs ==
  { JNull, JUndefined, JStr(Text(2 * maxLength + 1)), JArr(<< JStr(Text(2 * maxLength)) >>),
    JObj(<< KeyOutput >>, << JNull >>),
    JObj(<< KeyOutput, KeyTruncated >>, << JStr(Text(maxLength + 1)), JStr(<< "n" >>) >>) }
    \cup { JObj(<< KeyOutput >>, << JStr(Text(n)) >>) : n \in OutputLengths }
    \cup { JObj(<< KeyExtra >>, << JStr(Text(m)) >>) : m \in ExtraLengths }
    \cup { JObj(<< KeyOutput, KeyExtra >>, << JStr(Text(n)), JStr(Text(m)) >>) :
             n \in OutputLengths, m \in ExtraLengths }

InitTrunc ==
  /\ EngineIdle
  /\ arg = JNull
  /\ ret = JNull
  /\ outcome = "none"

TruncateOutput(result) == Called(result, truncateOutput(result))

NextTrunc == \E result \in TruncInputs : TruncateOutput(result)

SpecTrunc == InitTrunc /\ [][NextTrunc]_vars

\* the result has a string `output` longer than maxLength
LongOutput(result) ==
  /\ result.kind = "object"
  /\ Get(result, KeyOutput).kind = "string"
  /\ Len(Get(result, KeyOutput).str) > maxLength

\* r is the summary object the second check collapses a payload to
IsSummary(r) ==
  /\ r.kind = "object"
  /\ r.keys = << << "_", "t", "r", "u", "n", "c", "a", "t", "e", "d" >>,
                 << "_", "o", "r", "i", "g", "i", "n", "a", "l", "_", "s", "i", "z", "e" >>,
                 << "_", "s", "u", "m", "m", "a", "r", "y" >>,
                 << "p", "r", "e", "v", "i", "e", "w" >> >>

\* C23: a result whose `output` is a string of length L > maxLength comes back
\* with `output` = its first maxLength characters followed by
\* '... [truncated (L - maxLength) chars]', truncated = true and
\* original_length = L, its other fields as they were; a result whose `output`
\* is not longer than maxLength comes back unchanged unless the size check
\* collapses it.
C23_OutputTruncation ==
  outcome = "returned" =>
    IF LongOutput(arg)
    THEN LET out == Get(arg, KeyOutput).str
             L == Len(out)
         IN  /\ Get(ret, KeyOutput).kind = "string"
             /\ SubSeq(Get(ret, KeyOutput).str, 1, maxLength) = SubSeq(out, 1, maxLength)
             /\ SubSeq(Get(ret, KeyOutput).str, maxLength + 1, Len(Get(ret, KeyOutput).str))
                  = TruncationMarker(L - maxLength)
             /\ Get(ret, KeyTruncated) = JTrue
             /\ Get(ret, KeyOriginalLength) = JNum(L)
             /\ \A i \in 1..Len(arg.keys) :
                  arg.keys[i] \notin { KeyOutput, KeyTruncated, KeyOriginalLength }
                    => Get(ret, arg.keys[i]) = arg.vals[i]
    ELSE ret = arg \/ IsSummary(ret)

C23_Witness ==
  /\ outcome = "returned"
  /\ LongOutput(arg)
  /\ Len(Get(arg, KeyOutput).str) = maxLength + maxLength \div 2
  /\ Has(arg, KeyExtra)
  /\ Get(ret, KeyTruncated) = JTrue

\* C24: whenever the serialized payload is longer than twice the threshold
\* the result is the summary object, also when the payload is the one the
\* first check has just truncated.
C24_ChecksIndependent ==
  (outcome = "returned" /\ IsObject(arg)) =>
    LET first == IF LongOutput(arg)
                 THEN Set(Set(Set(arg, KeyOutput,
                                  JStr(SubSeq(Get(arg, KeyOutput).str, 1, maxLength)
                                         \o TruncationMarker(Len(Get(arg, KeyOutput).str)
                                                               - maxLength))),
                              KeyTruncated, JTrue),
                          KeyOriginalLength, JNum(Len(Get(arg, KeyOutput).str)))
                 ELSE arg
    IN  Len(stringify(first)) > 2 * maxLength => IsSummary(ret)

\* ------------------------------------------------------------ serializers
\* the truth value JavaScript gives v in a condition
Truthy(v) ==
  /\ v.kind \notin {"null", "undefined"}
  /\ ~(v.kind = "string" /\ v.str = <<>>)
  /\ ~(v.kind = "number" /\ v.str = << "0" >>)

\* the arguments and results of the tool calls the host reports
PlainArgs == JObj(<< KeyCmd >>, << JStr(<< "a" >>) >>)

SecretArgs == JObj(<< KeyCmd, KeyToken >>, << JStr(<< "a" >>), JStr(<< "b" >>) >>)

OkResult == JObj(<< KeyOutput >>, << JStr(<< "a" >>) >>)

ErrorResult == JObj(<< KeyError, KeyOutput >>, << JStr(<< "b" >>), JStr(<< "a" >>) >>)

ToolArgs == { PlainArgs, SecretArgs }

\* no result, a plain one, one with an error, one whose error field is null,
\* one whose error field is '', and one that carries a secret
ToolResults ==
  { JUndefined, OkResult, ErrorResult,
    JObj(<< KeyError, KeyOutput >>, << JNull, JStr(<< "a" >>) >>),
    JObj(<< KeyError >>, << JStr(<<>>) >>),
    JObj(<< KeyOutput, KeyToken >>, << JStr(<< "a" >>), JStr(<< "b" >>) >>) }

\* The tool events the host reports: the tool, its arguments, its result, the
\* duration (or none) and the length of the line the record serializes to
\* (a result with an error message makes the longer line).
ToolEvents ==
  { e \in [ tool : {"bash"}, args : ToolArgs, result : ToolResults,
            duration : { JUndefined, JNum(5) }, len : 1..2 ] :
      e.len = 2 <=> Truthy(Get(e.result, KeyError)) }

Directions == { "before", "after" }

\* The payloads of system events.
Payloads ==
  { JNull, JUndefined, JStr(<<>>), JStr(<< " " >>), JStr(<< "x" >>), JArr(<<>>),
    JObj(<<>>, <<>>),
    JObj(<< KeyCmd >>, << JNull >>),
    JObj(<< KeyCmd >>, << JStr(<<>>) >>),
    JObj(<< KeyCmd >>, << JStr(<< " " >>) >>),
    JObj(<< KeyCmd >>, << JObj(<<>>, <<>>) >>),
    JObj(<< KeyCmd, KeyExtra >>, << JStr(<<>>), JStr(<< "x" >>) >>),
    JObj(<< KeyToken >>, << JStr(<< "x" >>) >>) }

EventTypes == { "session.updated", "token_usage", "heartbeat", "Scroll" }

\* noisyEventTypes, compared with eventType.toLowerCase()
noisyEventTypes == { "heartbeat", "ping", "scroll", "cursor" }

toLowerCase(str) == IF str = "Scroll" THEN "scroll" ELSE str

\* payload.trim().length === 0
Blank(str) == \A i \in 1..Len(str) : str[i] \in {" ", "\t", "\n"}

\* v !== null && v !== undefined && v !== '' &&
\* !(typeof v === 'object' && Object.keys(v).length === 0)
HasValue(v) ==
  /\ v.kind \notin {"null", "undefined"}
  /\ ~(v.kind = "string" /\ v.str = <<>>)
  /\ ~(IsObject(v) /\ Len(v.vals) = 0)

\* !payload, no keys, no key with a value, or a blank string
NoMeaningfulData(payload) ==
  \/ ~Truthy(payload)
  \/ IsObject(payload)
       /\ \/ Len(payload.vals) = 0
          \/ ~(\E i \in 1..Len(payload.vals) : HasValue(payload.vals[i]))
  \/ payload.kind = "string" /\ Blank(payload.str)

\* the null a serializer returns for a record it drops
NoEntry ==
  [ level |-> 0 - 1, type |-> "null", len |-> 0, event |-> "", status |-> "",
    data |-> JNull ]

KeyDurationMs == << "d", "u", "r", "a", "t", "i", "o", "n", "_", "m", "s" >>

KeyInput == << "i", "n", "p", "u", "t" >>

KeyStatus == << "s", "t", "a", "t", "u", "s" >>

\* serializeToolEvent with the error test replaced by the presence of the field
serializeToolEvent_AnyErrorField(event, direction) ==
  LET error == Has(event.result, KeyError)
      level == IF direction = "after" /\ error THEN LevelError ELSE LevelInfo
      status == IF direction = "after"
                THEN (IF error THEN "error" ELSE "success")
                ELSE "pending"
  IN  IF ~shouldLogLevel(level) THEN NoEntry
      ELSE [ level |-> level, type |-> "tool_use", len |-> event.len,
             event |-> event.tool,
             status |-> status,
             data |->
               JObj(<< << "t", "o", "o", "l" >>, << "d", "i", "r", "e", "c", "t", "i", "o", "n" >>, KeyDurationMs, KeyInput, KeyOutput, KeyStatus >>,
                    << JStr(<< event.tool >>),
                       JStr(<< direction >>),
                       IF direction = "after" THEN event.duration ELSE JUndefined,
                       IF direction = "before" THEN sanitizeArgs(event.args)
                       ELSE JUndefined,
                       IF direction = "after" THEN truncateOutput(event.result)
                       ELSE JUndefined,
                       JStr(<< status >>) >>) ]

serializeToolEvent(event, direction) ==
  LET error == Truthy(Get(event.result, KeyError))
      level == IF direction = "after" /\ error THEN LevelError ELSE LevelInfo
      status == IF direction = "after"
                THEN (IF error THEN "error" ELSE "success")
                ELSE "pending"
  IN  IF ~shouldLogLevel(level) THEN NoEntry
      ELSE [ level |-> level, type |-> "tool_use", len |-> event.len,
             event |-> event.tool,
             status |-> status,
             data |->
               JObj(<< << "t", "o", "o", "l" >>, << "d", "i", "r", "e", "c", "t", "i", "o", "n" >>, KeyDurationMs, KeyInput, KeyOutput, KeyStatus >>,
                    << JStr(<< event.tool >>),
                       JStr(<< direction >>),
                       IF direction = "after" THEN event.duration ELSE JUndefined,
                       IF direction = "before" THEN sanitizeArgs(event.args)
                       ELSE JUndefined,
                       IF direction = "after" THEN truncateOutput(event.result)
                       ELSE JUndefined,
                       JStr(<< status >>) >>) ]

serializeSystemEvent(eventType, payload) ==
  IF eventType \in config.excludedEvents THEN NoEntry
  ELSE IF ~shouldLogLevel(LevelDebug) THEN NoEntry
  ELSE IF NoMeaningfulData(payload) THEN NoEntry
  ELSE IF toLowerCase(eventType) \in noisyEventTypes THEN NoEntry
  ELSE [ level |-> LevelDebug, type |-> "system", len |-> 1,
         event |-> eventType, status |-> "",
         data |-> JObj(<< << "e", "v", "e", "n", "t", "T", "y", "p", "e" >>, << "p", "a", "y", "l", "o", "a", "d" >> >>,
                       << JStr(<< eventType >>), sanitizeArgs(payload) >>) ]

\* the client object the host passes to AgentLogger
Client ==
  JObj(<< << "s", "e", "s", "s", "i", "o", "n" >>, << "a", "p", "i", "K", "e", "y" >> >>,
       << JObj(<< << "i", "d" >> >>, << JStr(<< "s1" >>) >>), JStr(<< "k" >>) >>)

\* Object.keys(v || {})
ObjectKeys(v) ==
  IF IsObject(v) THEN JArr([ i \in 1..Len(v.keys) |-> JStr(v.keys[i]) ]) ELSE JArr(<<>>)

serializeSessionStart ==
  [ level |-> LevelInfo, type |-> "system", len |-> 1,
    event |-> "session_start", status |-> "",
    data |->
      JObj(<< << "e", "v", "e", "n", "t" >>, << "s", "e", "s", "s", "i", "o", "n", "_", "n", "a", "m", "e" >>, << "m", "o", "d", "e", "l" >>, << "c", "w", "d" >>, << "a", "r", "g", "s" >>, << "n", "o", "d", "e", "_", "v", "e", "r", "s", "i", "o", "n" >>,
              << "p", "l", "a", "t", "f", "o", "r", "m" >>, << "c", "l", "i", "e", "n", "t", "_", "k", "e", "y", "s" >>, << "s", "e", "s", "s", "i", "o", "n", "_", "k", "e", "y", "s" >>, << "p", "r", "o", "j", "e", "c", "t", "_", "k", "e", "y", "s" >> >>,
           << JStr(<< "session_start" >>),
              Get(Get(Client, << "s", "e", "s", "s", "i", "o", "n" >>), << "i", "d" >>),
              JUndefined,
              JStr(<< "/work" >>),
              JArr(<< JStr(<< "node" >>) >>),
              JStr(<< "v20" >>),
              JStr(<< "linux" >>),
              ObjectKeys(Client),
              ObjectKeys(Get(Client, << "s", "e", "s", "s", "i", "o", "n" >>)),
              ObjectKeys(Get(Client, << "p", "r", "o", "j", "e", "c", "t" >>)) >>) ]

serializeSessionEnd ==
  [ level |-> LevelInfo, type |-> "system", len |-> 1,
    event |-> "session_end", status |-> "",
    data |-> JObj(<< << "e", "v", "e", "n", "t" >>, << "e", "x", "i", "t", "_", "c", "o", "d", "e" >>, << "u", "p", "t", "i", "m", "e", "_", "s", "e", "c", "o", "n", "d", "s" >> >>,
                  << JStr(<< "session_end" >>), JUndefined, JNum(7) >>) ]

serializeLLMEvent ==
  IF "llm" \in config.excludedEvents \/ "completion" \in config.excludedEvents
  THEN NoEntry
  ELSE [ level |-> LevelInfo, type |-> "llm", len |-> 1,
         event |-> "llm", status |-> "",
         data |-> JObj(<< << "e", "v", "e", "n", "t", "_", "t", "y", "p", "e" >>, << "m", "o", "d", "e", "l" >>, << "t", "o", "k", "e", "n", "s" >>, << "l", "a", "t", "e", "n", "c", "y", "_", "m", "s" >> >>,
                       << JStr(<< "completion" >>), JStr(<< "m" >>), JNum(9), JNum(3) >>) ]

serializeError(context) ==
  [ level |-> LevelError, type |-> "error", len |-> 2,
    event |-> context, status |-> "",
    data |-> JObj(<< << "c", "o", "n", "t", "e", "x", "t" >>, << "e", "r", "r", "o", "r", "_", "n", "a", "m", "e" >>, << "e", "r", "r", "o", "r", "_", "m", "e", "s", "s", "a", "g", "e" >>, << "e", "r", "r", "o", "r", "_", "s", "t", "a", "c", "k" >> >>,
                  << JStr(<< context >>), JStr(<< "Error" >>), JStr(<< "boom" >>),
                     JStr(<< "at f" >>) >>) ]

\* The serializer functions called directly, one call per step, under every
\* verbosity.
InitSer ==
  /\ config \in { [ buffering |-> [enabled |-> TRUE], verbosity |-> v,
                    rotation |-> [enabled |-> TRUE, compress |-> FALSE],
                    excludedEvents |-> x ] :
                  v \in Levels,
                  x \in { {}, DefaultExcluded, {"llm"}, {"tool_use", "system"} } }
  /\ inodes = << [content |-> <<>>, mtime |-> 0] >>
  /\ arch = {}
  /\ archiveDir = FALSE
  /\ active = 1
  /\ streams = <<>>
  /\ stream = NoStream
  /\ buffer = <<>>
  /\ flushTimer = FALSE
  /\ isClosing = FALSE
  /\ writeQueue = <<>>
  /\ closePc = "idle"
  /\ closeWait = 0
  /\ closeStream = NoStream
  /\ hookPc = "idle"
  /\ rotationInProgress = FALSE
  /\ now = 0
  /\ alive = TRUE
  /\ nextId = 0
  /\ closeCalls = 0
  /\ closeIds = -1
  /\ sigIds = -1
  /\ lateLog = FALSE
  /\ atRename = NotRenamed
  /\ lastRet = Null
  /\ extWrites = 0
  /\ fault = NoFault
  /\ outcome = "none"
  /\ hooks = TRUE
  /\ serOut = NotSerialized
  /\ arg = 0
  /\ ret = 0

\* a serializer call: the function called, its input and what it returned
Serialized(fn, input, entry) ==
  /\ serOut' = [fn |-> fn, entry |-> entry]
  /\ arg' = input
  /\ UNCHANGED << config, stream, buffer, flushTimer, isClosing, writeQueue, closePc,
                  closeWait, closeStream, hookPc, streams, inodes, active, arch,
                  rotationInProgress, now, alive, nextId, closeCalls, closeIds,
                  sigIds, lateLog, atRename, lastRet, extWrites, archiveDir, fault,
                  outcome, hooks, ret >>

SerializeToolEvent(event, direction) ==
  Serialized("serializeToolEvent", [event |-> event, direction |-> direction],
             serializeToolEvent(event, direction))

SerializeSystemEvent(eventType, payload) ==
  Serialized("serializeSystemEvent", [eventType |-> eventType, payload |-> payload],
             serializeSystemEvent(eventType, payload))

SerializeSessionStart == Serialized("serializeSessionStart", Client, serializeSessionStart)

SerializeSessionEnd == Serialized("serializeSessionEnd", Client, serializeSessionEnd)

SerializeLLMEvent == Serialized("serializeLLMEvent", JNull, serializeLLMEvent)

SerializeError(context) ==
  Serialized("serializeError", [context |-> context], serializeError(context))

NextSer ==
  \/ \E event \in ToolEvents, direction \in Directions :
       SerializeToolEvent(event, direction)
  \/ \E eventType \in EventTypes, payload \in Payloads :
       SerializeSystemEvent(eventType, payload)
  \/ SerializeSessionStart
  \/ SerializeSessionEnd
  \/ SerializeLLMEvent
  \/ \E context \in {"hook:event", "hook:close"} : SerializeError(context)

SpecSer == InitSer /\ [][NextSer]_vars

\* C19: a record returned by a serializer function has a level >= the
\* configured verbosity; a record below the threshold is never returned.
C19_SerializerLevelGate ==
  serOut.entry # NoEntry => serOut.entry.level >= config.verbosity

\* no key of v, at any depth, that names a sensitive field keeps a value
\* other than the redaction marker
RECURSIVE AllRedacted(_)
AllRedacted(v) ==
  \A i \in 1..Len(v.vals) :
    IF v.kind = "object" /\ isSensitive(v.keys[i])
    THEN v.vals[i] = REDACTED
    ELSE AllRedacted(v.vals[i])

\* a record the serializer returned and ActivityLogger.log does not drop
Writable(entry) == entry # NoEntry /\ entry.level >= config.verbosity

\* C22: in every record that is written, whatever its kind, no payload key
\* whose lowercase form contains a sensitive substring keeps its original
\* value.
C22_EveryPayloadRedacted ==
  /\ Writable(serOut.entry)
  /\ serOut.fn \in { "serializeToolEvent", "serializeSystemEvent", "serializeError",
                     "serializeSessionStart", "serializeSessionEnd" }
  => AllRedacted(serOut.entry.data)

\* the serializeToolEvent call of the last step, if that is what it was
ToolCall(direction) ==
  /\ serOut.fn = "serializeToolEvent"
  /\ arg.direction = direction

\* C25: a tool record is returned exactly when its level passes the
\* verbosity; the 'before' record has status pending, level info and the
\* sanitized arguments; the 'after' record has status error and level error
\* exactly when result.error is a truthy value, otherwise status success and
\* level info, and carries the duration the host reported.
C25_ToolRecords ==
  /\ ToolCall("before") =>
        IF LevelInfo >= config.verbosity
        THEN /\ serOut.entry.type = "tool_use"
             /\ serOut.entry.status = "pending"
             /\ serOut.entry.level = LevelInfo
             /\ OnlySecretsMarked(arg.event.args, Get(serOut.entry.data, KeyInput))
        ELSE serOut.entry = NoEntry
  /\ ToolCall("after") =>
        LET error == Get(arg.event.result, KeyError)
            failed == error \notin { JUndefined, JNull, JStr(<<>>) }
            level == IF failed THEN LevelError ELSE LevelInfo
        IN  IF level >= config.verbosity
            THEN /\ serOut.entry.type = "tool_use"
                 /\ serOut.entry.status = (IF failed THEN "error" ELSE "success")
                 /\ serOut.entry.level = level
                 /\ Get(serOut.entry.data, KeyDurationMs) = arg.event.duration
            ELSE serOut.entry = NoEntry

\* an 'after' record of a result whose error field is null or '': success
C25_Witness ==
  /\ ToolCall("after")
  /\ Has(arg.event.result, KeyError)
  /\ serOut.entry # NoEntry
  /\ serOut.entry.status = "success"
  /\ Get(serOut.entry.data, KeyDurationMs) = JNum(5)

\* C25 as stated: the 'after' record has status error and level error
\* exactly when the result carries an error field.
C25_ErrorFieldPresent ==
  ToolCall("after") /\ serOut.entry # NoEntry =>
    /\ serOut.entry.status = "error" <=> Has(arg.event.result, KeyError)
    /\ serOut.entry.level = LevelError <=> Has(arg.event.result, KeyError)

\* a value that is empty, null or a whitespace-only string
EmptyValue(v) ==
  \/ v \in { JNull, JUndefined }
  \/ v.kind = "string" /\ Blank(v.str)
  \/ IsObject(v) /\ Len(v.vals) = 0

\* a payload that is empty, null, an empty object, or a mapping all of whose
\* values are empty, null or whitespace-only
EmptyPayload(payload) ==
  \/ EmptyValue(payload)
  \/ payload.kind = "object" /\ \A i \in 1..Len(payload.vals) : EmptyValue(payload.vals[i])

\* C26: a system event whose payload is empty, null, an empty object, or a
\* mapping with only empty, null or whitespace-only values produces no
\* record; a payload with a meaningful value is not dropped by this rule (it
\* is recorded when the type is neither excluded nor noisy and debug records
\* pass the verbosity).
C26_EmptyPayloadDropped ==
  serOut.fn = "serializeSystemEvent" =>
    /\ EmptyPayload(arg.payload) => serOut.entry = NoEntry
    /\ ( /\ ~EmptyPayload(arg.payload)
         /\ arg.eventType \notin config.excludedEvents
         /\ toLowerCase(arg.eventType) \notin noisyEventTypes
         /\ LevelDebug >= config.verbosity )
       => serOut.entry # NoEntry

\* C28: a record kind listed in excludedEvents is suppressed: with
\* excludedEvents containing 'tool_use' (or 'system') no record of type
\* tool_use (system) is returned to be written.
C28_ExcludedKindSuppressed ==
  Writable(serOut.entry) => serOut.entry.type \notin config.excludedEvents

\* ------------------------------------------------- the plugin under faults
\* What can go wrong while AgentLogger initializes: loadConfig throws, both
\* mkdirSync calls of ensureLogDirectory throw, or createWriteStream throws.
InitFaults == { NoFault, "loadConfig", "mkdir", "openStream" }

\* What can go wrong inside a hook: the hook's prologue or its serializer
\* throws (a malformed input), JSON.stringify throws inside logger.log, or
\* the rename of a rotation fails.
HookFaults == { NoFault, "serializer", "stringify", "renameFails" }

\* the state equals s (Commit, for an initial state)
Holds(s) ==
  /\ stream = s.stream
  /\ buffer = s.buffer
  /\ flushTimer = s.flushTimer
  /\ isClosing = s.isClosing
  /\ writeQueue = s.writeQueue
  /\ streams = s.streams
  /\ inodes = s.inodes
  /\ active = s.active
  /\ archiveDir = s.archiveDir
  /\ arch = s.arch
  /\ rotationInProgress = s.rotationInProgress
  /\ nextId = s.nextId
  /\ lateLog = s.lateLog

\* new ActivityLogger(config) in an empty log directory: the stream opened (and
\* the file created) or not, the timer set when buffering is enabled
constructed(opened) ==
  [ stream |-> IF opened THEN 1 ELSE NoStream,
    buffer |-> <<>>,
    flushTimer |-> config.buffering.enabled,
    isClosing |-> FALSE,
    writeQueue |-> <<>>,
    streams |-> IF opened
                THEN << [ino |-> 1, pending |-> <<>>, ending |-> FALSE,
                         finished |-> FALSE, needDrain |-> FALSE] >>
                ELSE <<>>,
    inodes |-> IF opened THEN << [content |-> <<>>, mtime |-> 0] >> ELSE <<>>,
    active |-> IF opened THEN 1 ELSE NoFile,
    archiveDir |-> FALSE,
    arch |-> {},
    rotationInProgress |-> FALSE,
    nextId |-> 0,
    lateLog |-> FALSE ]

\* no logger was constructed
notConstructed ==
  [ constructed(FALSE) EXCEPT !.flushTimer = FALSE ]

\* AgentLogger({client}): a fault in loadConfig or in the constructor is caught
\* and {} is returned; otherwise the session start is logged and the hooks are
\* returned
InitFault ==
  /\ config \in { [ buffering |-> [enabled |-> b], verbosity |-> v,
                    rotation |-> [enabled |-> TRUE, compress |-> FALSE],
                    excludedEvents |-> DefaultExcluded ] :
                  b \in BOOLEAN, v \in {LevelDebug} }
  /\ \E f \in InitFaults :
       /\ fault = f
       /\ IF f \in {"loadConfig", "mkdir"}
          THEN /\ hooks = FALSE
               /\ outcome = "caught"
               /\ Holds(notConstructed)
          ELSE /\ hooks = TRUE
               /\ outcome = "returned"
               /\ Holds(log(constructed(f = NoFault), serializeSessionStart))
  /\ closePc = "idle"
  /\ closeWait = 0
  /\ closeStream = NoStream
  /\ hookPc = "idle"
  /\ now = 0
  /\ alive = TRUE
  /\ closeCalls = 0
  /\ closeIds = -1
  /\ sigIds = -1
  /\ atRename = NotRenamed
  /\ lastRet = Null
  /\ extWrites = 0
  /\ serOut = NotSerialized
  /\ arg = 0
  /\ ret = 0

\* logger.log(entry) inside a hook: JSON.stringify throws once log() is past
\* its isClosing and verbosity checks
logInHook(s, entry, f) ==
  IF f = "stringify" /\ ~s.isClosing /\ shouldLogLevel(entry.level)
  THEN [st |-> s, thrown |-> TRUE]
  ELSE [st |-> log(s, entry), thrown |-> FALSE]

\* const newPath = rotator.checkRotation(logger.currentPath);
\* if (newPath) logger.rotate(newPath)
rotateIfDue(s, ord, f) ==
  LET r == checkRotation(s, LogPath, ord, IF f = "renameFails" THEN f ELSE NoFault)
  IN  [ ret |-> r.ret,
        st |-> IF r.ret # Null THEN rotate(r.st, r.ret) ELSE r.st ]

\* the try block of the tool.execute.before hook
toolExecuteBeforeBody(s, event, f) ==
  IF f = "serializer" THEN [st |-> s, thrown |-> TRUE, ret |-> Null]
  ELSE LET entry == serializeToolEvent(event, "before")
           l == IF entry = NoEntry THEN [st |-> s, thrown |-> FALSE]
                ELSE logInHook(s, entry, f)
       IN  [st |-> l.st, thrown |-> l.thrown, ret |-> Null]

\* the try block of the tool.execute.after hook
toolExecuteAfterBody(s, event, ord, f) ==
  IF f = "serializer" THEN [st |-> s, thrown |-> TRUE, ret |-> Null]
  ELSE LET entry == serializeToolEvent(event, "after")
           l == IF entry = NoEntry THEN [st |-> s, thrown |-> FALSE]
                ELSE logInHook(s, entry, f)
           r == rotateIfDue(l.st, ord, f)
       IN  IF l.thrown THEN [st |-> l.st, thrown |-> TRUE, ret |-> Null]
           ELSE [st |-> r.st, thrown |-> FALSE, ret |-> r.ret]

\* the event hook with neither exclusion check: not the hook's own, not the
\* one of serializeSystemEvent
eventBody_NoExclusionGate(s, eventType, payload, sampled, ord, f) ==
  IF f = "serializer" THEN [st |-> s, thrown |-> TRUE, ret |-> Null]
  ELSE LET entry == IF ~shouldLogLevel(LevelDebug) \/ NoMeaningfulData(payload)
                       \/ toLowerCase(eventType) \in noisyEventTypes
                    THEN NoEntry
                    ELSE [ level |-> LevelDebug, type |-> "system", len |-> 1,
                           event |-> eventType, status |-> "", data |-> JNull ]
           l == IF entry = NoEntry THEN [st |-> s, thrown |-> FALSE]
                ELSE logInHook(s, entry, f)
           r == rotateIfDue(l.st, ord, f)
       IN  IF l.thrown THEN [st |-> l.st, thrown |-> TRUE, ret |-> Null]
           ELSE IF sampled THEN [st |-> r.st, thrown |-> FALSE, ret |-> r.ret]
           ELSE [st |-> l.st, thrown |-> FALSE, ret |-> Null]

\* the try block of the event hook; sampled: Math.random() < 0.01
eventBody(s, eventType, payload, sampled, ord, f) ==
  IF f = "serializer" THEN [st |-> s, thrown |-> TRUE, ret |-> Null]
  ELSE IF eventType \in config.excludedEvents
  THEN [st |-> s, thrown |-> FALSE, ret |-> Null]
  ELSE LET entry == serializeSystemEvent(eventType, payload)
           l == IF entry = NoEntry THEN [st |-> s, thrown |-> FALSE]
                ELSE logInHook(s, entry, f)
           r == rotateIfDue(l.st, ord, f)
       IN  IF l.thrown THEN [st |-> l.st, thrown |-> TRUE, ret |-> Null]
           ELSE IF sampled THEN [st |-> r.st, thrown |-> FALSE, ret |-> r.ret]
           ELSE [st |-> l.st, thrown |-> FALSE, ret |-> Null]

\* the try block of the client.init hook
clientInitBody(s) ==
  [ st |-> log(s, [ level |-> LevelInfo, type |-> "system", len |-> 1,
                    event |-> "client_initialized", status |-> "" ]),
    thrown |-> FALSE, ret |-> Null ]

\* the try block of the hook.error hook
hookErrorBody(s, context, f) ==
  IF f = "serializer" THEN [st |-> s, thrown |-> TRUE, ret |-> Null]
  ELSE LET l == logInHook(s, serializeError(context), f)
       IN  [st |-> l.st, thrown |-> l.thrown, ret |-> Null]

\* try { body } catch (error) { console.error(...) } with an exception that
\* would leave the hook
tryCatch_Rethrow(r) == IF r.thrown THEN "threw" ELSE "returned"

\* try { body } catch (error) { console.error(...) }: how the hook ends
tryCatch(r) == IF r.thrown THEN "caught" ELSE "returned"

\* a hook of the returned hook set runs body r
HookRun(r) ==
  /\ alive
  /\ hooks
  /\ r.st.nextId <= MaxRecords
  /\ Len(r.st.streams) <= MaxStreams
  /\ Commit(r.st)
  /\ outcome' = tryCatch(r)
  /\ lastRet' = r.ret
  /\ UNCHANGED << config, closePc, closeWait, closeStream, hookPc, now, alive,
                  closeCalls, closeIds, sigIds, atRename, extWrites, fault, hooks,
                  serOut, ret >>

Hook(r) == HookRun(r) /\ UNCHANGED arg

ToolBeforeHook(event, f) == Hook(toolExecuteBeforeBody(Cur, event, f))

ToolAfterHook(event, ord, f) == Hook(toolExecuteAfterBody(Cur, event, ord, f))

EventHook(eventType, payload, sampled, ord, f) ==
  Hook(eventBody(Cur, eventType, payload, sampled, ord, f))

ClientInitHook == Hook(clientInitBody(Cur))

ErrorHook(context, f) == Hook(hookErrorBody(Cur, context, f))

\* the tool events and system events the host delivers in this specification
HostToolEvents ==
  { e \in ToolEvents :
      /\ e.args = PlainArgs
      /\ e.duration = JNum(5)
      /\ \/ e.result = OkResult /\ e.len = 1
         \/ e.result = ErrorResult /\ e.len = 2 }

HostEvents ==
  { e \in [ type : EventTypes, payload : Payloads ] :
      \/ e.type = "session.updated" /\ e.payload = JNull
      \/ e.type = "session.updated" /\ e.payload = JStr(<< "x" >>)
      \/ e.type = "heartbeat" /\ e.payload = JNull }

NextFault ==
  \/ \E event \in HostToolEvents, f \in HookFaults : ToolBeforeHook(event, f)
  \/ \E event \in HostToolEvents, f \in HookFaults,
        ord \in DirOrders(Cardinality(Listed(Others(arch))) + 1) :
       ToolAfterHook(event, ord, f)
  \/ \E e \in HostEvents, sampled \in BOOLEAN, f \in HookFaults,
        ord \in DirOrders(Cardinality(Listed(Others(arch))) + 1) :
       EventHook(e.type, e.payload, sampled, ord, f)
  \/ ClientInitHook
  \/ \E context \in {"hook:event"}, f \in HookFaults : ErrorHook(context, f)
  \/ hooks /\ CloseHook
  \/ \E ord \in DirOrders(Cardinality(Listed(arch))) : CloseHookResume(ord)
  \/ hooks /\ Flush
  \/ TimerTick
  \/ RunFlushTask
  \/ \E k \in 1..Len(streams) : WriteDone(k)
  \/ CloseAwaitQueue
  \/ CloseEndStream
  \/ \E k \in 1..Len(streams) : StreamFinish(k)
  \/ hooks /\ Signal
  \/ hooks /\ ProcessExit

SpecFault == InitFault /\ [][NextFault]_vars

\* the active file is on disk and larger than rotation.maxSizeMB
AboveLimit(s) == s.active # NoFile /\ Size(s, s.active) > maxSizeMB

\* what a tool.execute.after call with in-hook fault f leaves behind, for every
\* tool event and directory order
AfterToolCompletion(f) ==
  { toolExecuteAfterBody(Cur, event, ord, f) :
      event \in HostToolEvents,
      ord \in DirOrders(Cardinality(Listed(Others(arch))) + 1) }

C37_BoundedBuffer ==
  (hooks /\ config.buffering.enabled) => SumLen(buffer) <= highWatermarkBytes

\* C17: no hook lets an exception reach the host, whatever the input and
\* whichever of serializer, logger or rotator fails, and an initialization
\* that fails returns an empty hook set.
C17_NoFaultEscapes ==
  /\ outcome # "threw"
  /\ fault \in {"loadConfig", "mkdir"} => ~hooks /\ outcome = "caught" /\ nextId = 0

C17_Witness ==
  /\ hooks
  /\ outcome = "caught"
  /\ Rotated

\* C18: while the stream could not be opened, no step of the engine (log,
\* flush, close, the exit handler) throws or writes anything to a file, in
\* buffered and in unbuffered mode, and nothing is queued for writing.
C18_DegradedMode ==
  /\ [](streams = <<>> => writeQueue = <<>> /\ stream = NoStream)
  /\ [][ (streams = <<>> /\ streams' = <<>>)
           => inodes' = inodes /\ outcome' # "threw" ]_vars

C18_Witness ==
  /\ hooks /\ streams = <<>>
  /\ closePc = "done"
  /\ ~alive
  /\ nextId >= 1

\* ------------------------------------------------ the event hook's gate
\* The plugin initialized without a fault, under every verbosity, with the
\* default exclusion set or one that names session.updated and Scroll.
InitGate ==
  /\ config \in { [ buffering |-> [enabled |-> b], verbosity |-> v,
                    rotation |-> [enabled |-> TRUE, compress |-> FALSE],
                    excludedEvents |-> x ] :
                  b \in BOOLEAN, v \in Levels,
                  x \in { DefaultExcluded, {"session.updated", "Scroll"} } }
  /\ fault = NoFault
  /\ hooks = TRUE
  /\ outcome = "returned"
  /\ Holds(log(constructed(TRUE), serializeSessionStart))
  /\ closePc = "idle"
  /\ closeWait = 0
  /\ closeStream = NoStream
  /\ hookPc = "idle"
  /\ now = 0
  /\ alive = TRUE
  /\ closeCalls = 0
  /\ closeIds = -1
  /\ sigIds = -1
  /\ atRename = NotRenamed
  /\ lastRet = Null
  /\ extWrites = 0
  /\ serOut = NotSerialized
  /\ arg = [type |-> "none", payload |-> JNull]
  /\ ret = 0

\* every event the host can deliver to the event hook
AllEvents == [ type : EventTypes, payload : Payloads ]

\* the events the host delivers in this specification
GateEvents ==
  { e \in AllEvents :
      /\ e.type \in { "session.updated", "token_usage" }
      /\ e.payload \in { JNull, JStr(<< "x" >>) } }

\* the event hook without a fault; the event delivered is kept in arg
EventDelivered(e, sampled, ord) ==
  /\ HookRun(eventBody(Cur, e.type, e.payload, sampled, ord, NoFault))
  /\ arg' = e

NextGate ==
  \/ \E e \in GateEvents, sampled \in BOOLEAN,
        ord \in DirOrders(Cardinality(Listed(Others(arch))) + 1) :
       EventDelivered(e, sampled, ord)
  \/ TimerTick
  \/ RunFlushTask
  \/ \E k \in 1..Len(streams) : WriteDone(k)

SpecGate == InitGate /\ [][NextGate]_vars

\* C27: for every event whose type is in config.excludedEvents the event
\* hook writes no record, whatever the payload and the verbosity: the hook
\* leaves the logger and its files as they were.
C27_ExclusionGate ==
  \A e \in AllEvents, sampled \in BOOLEAN,
     ord \in DirOrders(Cardinality(Listed(Others(arch))) + 1) :
    e.type \in config.excludedEvents =>
      eventBody(Cur, e.type, e.payload, sampled, ord, NoFault).st = Cur

\* an excluded event with a payload that a debug logger would record has
\* been delivered, after a record of another event was written
C27_Witness ==
  /\ arg \in AllEvents
  /\ arg.type \in config.excludedEvents
  /\ ~NoMeaningfulData(arg.payload)
  /\ toLowerCase(arg.type) \notin noisyEventTypes
  /\ config.verbosity = LevelDebug
  /\ outcome = "returned"
  /\ nextId = 2

\* ------------------------------------------------------- configuration
\* A value of a numeric configuration field: a number, NaN, a string (as a
\* JSON file can hold one) or absent.
Absent == [t |-> "absent", n |-> 0, s |-> <<>>]

Num(n) == [t |-> "num", n |-> n, s |-> <<>>]

NaN == [t |-> "nan", n |-> 0, s |-> <<>>]

Str(chars) == [t |-> "str", n |-> 0, s |-> chars]

IsDigit(c) == \E d \in 1..10 : DecimalDigits[d] = c

DigitValue(c) == (CHOOSE d \in 1..10 : DecimalDigits[d] = c) - 1

RECURSIVE SkipSpaces(_)
SkipSpaces(str) ==
  IF str # <<>> /\ Head(str) \in {" ", "\t"} THEN SkipSpaces(Tail(str)) ELSE str

RECURSIVE LeadingDigits(_)
LeadingDigits(str) ==
  IF str # <<>> /\ IsDigit(Head(str))
  THEN << Head(str) >> \o LeadingDigits(Tail(str))
  ELSE <<>>

RECURSIVE DecimalValue(_)
DecimalValue(ds) ==
  IF ds = <<>> THEN 0
  ELSE DecimalValue(SubSeq(ds, 1, Len(ds) - 1)) * 10 + DigitValue(ds[Len(ds)])

\* what follows the leading white space and the sign
Unsigned(str) ==
  LET t == SkipSpaces(str)
  IN  IF t # <<>> /\ Head(t) \in {"-", "+"} THEN Tail(t) ELSE t

Negative(str) == SkipSpaces(str) # <<>> /\ Head(SkipSpaces(str)) = "-"

\* parseInt(str, 10): the digits after the white space and the sign, up to the
\* first character that is not a digit; NaN when there is none
parseInt(str) ==
  LET ds == LeadingDigits(Unsigned(str))
  IN  IF ds = <<>> THEN NaN
      ELSE Num(IF Negative(str) THEN 0 - DecimalValue(ds) ELSE DecimalValue(ds))

\* the number JavaScript compares in v < k: a blank string is 0, a string
\* that is not a numeral is NaN, undefined is NaN
ToNumber(v) ==
  IF v.t = "num" THEN v
  ELSE IF v.t = "str"
  THEN (IF SkipSpaces(v.s) = <<>> THEN Num(0)
        ELSE IF Len(LeadingDigits(Unsigned(v.s))) = Len(Unsigned(v.s))
                /\ Unsigned(v.s) # <<>>
        THEN parseInt(v.s)
        ELSE NaN)
  ELSE NaN

\* v < k; a comparison with NaN is false
LessThan(v, k) == ToNumber(v).t = "num" /\ ToNumber(v).n < k

DEFAULT_CONFIG ==
  [ rotation |-> [maxSizeMB |-> Num(100), maxFiles |-> Num(10), maxAgeDays |-> Num(30)],
    verbosity |-> "info",
    buffering |-> [flushIntervalMs |-> Num(100), highWatermarkBytes |-> Num(16384)] ]

\* { ...base, ...override } for one field
Spread(base, override) == IF override.t = "absent" THEN base ELSE override

mergeConfig(base, override) ==
  [ rotation |->
      [ maxSizeMB |-> Spread(base.rotation.maxSizeMB, override.rotation.maxSizeMB),
        maxFiles |-> Spread(base.rotation.maxFiles, override.rotation.maxFiles),
        maxAgeDays |-> Spread(base.rotation.maxAgeDays, override.rotation.maxAgeDays) ],
    verbosity |-> IF override.verbosity = "" THEN base.verbosity ELSE override.verbosity,
    buffering |->
      [ flushIntervalMs |->
          Spread(base.buffering.flushIntervalMs, override.buffering.flushIntervalMs),
        highWatermarkBytes |->
          Spread(base.buffering.highWatermarkBytes, override.buffering.highWatermarkBytes) ] ]

\* an unset or empty environment variable is falsy and leaves the field alone
applyEnvironmentOverrides(cfg, env) ==
  [ cfg EXCEPT
      !.verbosity = IF env.verbosity # "" THEN env.verbosity ELSE @,
      !.rotation.maxSizeMB = IF env.maxSizeMB # <<>> THEN parseInt(env.maxSizeMB) ELSE @ ]

validLevels == { "debug", "info", "warn", "error" }

\* if (v < k) v = k
Clamp(v, k) == IF LessThan(v, k) THEN Num(k) ELSE v

validateConfig(cfg) ==
  [ rotation |->
      [ maxSizeMB |-> Clamp(cfg.rotation.maxSizeMB, 1),
        maxFiles |-> Clamp(cfg.rotation.maxFiles, 1),
        maxAgeDays |-> Clamp(cfg.rotation.maxAgeDays, 1) ],
    verbosity |-> IF cfg.verbosity \in validLevels THEN cfg.verbosity ELSE "info",
    buffering |->
      [ flushIntervalMs |-> Clamp(cfg.buffering.flushIntervalMs, 10),
        highWatermarkBytes |-> Clamp(cfg.buffering.highWatermarkBytes, 1024) ] ]

\* loadConfig with the 'agent-logger' section of opencode.json and the
\* environment
loadConfig(file, env) ==
  validateConfig(applyEnvironmentOverrides(mergeConfig(DEFAULT_CONFIG, file), env))

\* the 'agent-logger' sections read from opencode.json
FileConfigs ==
  [ rotation : [ maxSizeMB : { Absent, Num(0), Num(50), Str(<< "a", "b", "c" >>) },
                 maxFiles : { Absent, Num(0), Num(3) },
                 maxAgeDays : { Absent, Num(0) } ],
    verbosity : { "", "warn", "verbose" },
    buffering : [ flushIntervalMs : { Absent, Num(5), Num(10) },
                  highWatermarkBytes : { Absent, Num(1000) } ] ]

\* AGENT_LOGGER_ROTATION_MAX_SIZE_MB and AGENT_LOGGER_VERBOSITY; empty: unset
Environments ==
  [ maxSizeMB : { <<>>, << "5" >>, << "0" >>, << "-", "3" >>, << "a", "b", "c" >>,
                  << "7", "x" >> },
    verbosity : { "", "error", "loud" } ]

InitCfg ==
  /\ EngineIdle
  /\ arg \in [ file : FileConfigs, env : Environments ]
  /\ ret = 0
  /\ outcome = "none"

LoadConfig ==
  /\ outcome = "none"
  /\ Called(arg, loadConfig(arg.file, arg.env))

NextCfg == LoadConfig

SpecCfg == InitCfg /\ [][NextCfg]_vars

\* the field holds a number that is at least k
AtLeast(v, k) == ToNumber(v).t = "num" /\ ToNumber(v).n >= k

\* C29: after validation, for every input configuration and environment,
\* maxSizeMB, maxFiles and maxAgeDays are >= 1, flushIntervalMs >= 10,
\* highWatermarkBytes >= 1024 and verbosity is one of debug, info, warn,
\* error, an unrecognized one having been replaced by info.
C29_ValidatedConfig ==
  outcome = "returned" =>
    /\ AtLeast(ret.rotation.maxSizeMB, 1)
    /\ AtLeast(ret.rotation.maxFiles, 1)
    /\ AtLeast(ret.rotation.maxAgeDays, 1)
    /\ AtLeast(ret.buffering.flushIntervalMs, 10)
    /\ AtLeast(ret.buffering.highWatermarkBytes, 1024)
    /\ ret.verbosity \in validLevels

\* ------------------------------------------- loadConfig called repeatedly
MaxLoads == 2

\* loadConfig on the module's DEFAULT_CONFIG object as it stands (defaults).
\* `{ ...DEFAULT_CONFIG }` copies the top level only: without an 'agent-logger'
\* section config.rotation and config.buffering are the objects of
\* DEFAULT_CONFIG, and what applyEnvironmentOverrides and validateConfig
\* assign to their fields stays in them; mergeConfig builds new objects.
loadConfigFrom(defaults, section, file, env) ==
  LET merged == IF section THEN mergeConfig(defaults, file) ELSE defaults
      loaded == validateConfig(applyEnvironmentOverrides(merged, env))
  IN  [ config |-> loaded,
        defaults |-> IF section THEN defaults
                     ELSE [ defaults EXCEPT !.rotation = loaded.rotation,
                                            !.buffering = loaded.buffering ] ]

\* an 'agent-logger' section that sets nothing
NoOverrides ==
  [ rotation |-> [maxSizeMB |-> Absent, maxFiles |-> Absent, maxAgeDays |-> Absent],
    verbosity |-> "",
    buffering |-> [flushIntervalMs |-> Absent, highWatermarkBytes |-> Absent] ]

\* what one loadConfig call finds: opencode.json with or without an
\* 'agent-logger' section, and the environment
LoadInputs ==
  { in \in [ section : BOOLEAN,
             file : { NoOverrides,
                      [ NoOverrides EXCEPT !.rotation.maxSizeMB = Num(50) ],
                      [ NoOverrides EXCEPT !.rotation.maxFiles = Num(0) ] },
             env : [ maxSizeMB : { <<>>, << "5" >>, << "0" >>, << "7", "x" >> },
                     verbosity : { "", "error" } ] ] :
      ~in.section => in.file = NoOverrides }

InitLoads ==
  /\ EngineIdle
  /\ arg = [ defaults |-> DEFAULT_CONFIG, calls |-> 0,
             input |-> [ section |-> FALSE, file |-> NoOverrides,
                         env |-> [maxSizeMB |-> <<>>, verbosity |-> ""] ] ]
  /\ ret = 0
  /\ outcome = "none"

\* one more loadConfig() call of the same process
LoadConfigCall(in) ==
  /\ arg.calls < MaxLoads
  /\ LET r == loadConfigFrom(arg.defaults, in.section, in.file, in.env)
     IN  Called([ defaults |-> r.defaults, calls |-> arg.calls + 1, input |-> in ],
                r.config)

NextLoads == \E in \in LoadInputs : LoadConfigCall(in)

SpecLoads == InitLoads /\ [][NextLoads]_vars

\* C39: over any sequence of loadConfig calls the built-in defaults stay as
\* written in the source, and each call returns what the file and environment
\* of that call give on those defaults.
C39_DefaultsUntouched ==
  arg.calls > 0 =>
    /\ arg.defaults = DEFAULT_CONFIG
    /\ ret = loadConfig(arg.input.file, arg.input.env)

\* ------------------------------------------------------ lines and bytes
\* The engine seen at the level of characters: buffer holds the lines log()
\* pushed, requests the strings handed to stream.write and appendFileSync in
\* the order they were issued, accepted the entries log() took, buffering
\* is config.buffering.enabled.
MaxLineRecords == 3

watermarkChars == 12

KeyMessage == << "m" >>

\* messages with a line feed, a backslash followed by n, and a quote
LineMessages ==
  { << "a" >>, << "\n" >>, << "\\", "n" >>, << "\"" >>, << "a", "\n", "b" >> }

LineEntries == { JObj(<< KeyMessage >>, << JStr(m) >>) : m \in LineMessages }

\* const line = JSON.stringify(entry) + '\n'
lineOf(entry) == stringify(entry) \o << "\n" >>

\* this.buffer.join('')
join(lines) == Flatten(lines)

\* flush and syncFlush: the whole buffer becomes one write request
flushLines(b) ==
  IF b.buffer = <<>> THEN b
  ELSE [ b EXCEPT !.buffer = <<>>, !.requests = Append(@, join(b.buffer)) ]

\* log once the entry is accepted
logLine(b, entry) ==
  LET b1 == [ b EXCEPT !.accepted = Append(@, entry) ]
  IN  IF b.buffering
      THEN LET b2 == [ b1 EXCEPT !.buffer = Append(@, lineOf(entry)) ]
           IN  IF Len(join(b2.buffer)) > watermarkChars THEN flushLines(b2) ELSE b2
      ELSE [ b1 EXCEPT !.requests = Append(@, lineOf(entry)) ]

InitLine ==
  /\ EngineIdle
  /\ \E b \in BOOLEAN :
       arg = [ buffering |-> b, buffer |-> <<>>, requests |-> <<>>, accepted |-> <<>> ]
  /\ ret = 0
  /\ outcome = "none"

LineStep(b) ==
  /\ arg' = b
  /\ UNCHANGED << config, stream, buffer, flushTimer, isClosing, writeQueue, closePc,
                  closeWait, closeStream, hookPc, streams, inodes, active, arch,
                  rotationInProgress, now, alive, nextId, closeCalls, closeIds,
                  sigIds, lateLog, atRename, lastRet, extWrites, archiveDir, fault,
                  outcome, hooks, serOut, ret >>

LogLine(entry) ==
  /\ Len(arg.accepted) < MaxLineRecords
  /\ LineStep(logLine(arg, entry))

\* a timer tick, an explicit flush or the exit handler's syncFlush
FlushLines ==
  /\ arg.buffer # <<>>
  /\ LineStep(flushLines(arg))

NextLine ==
  \/ \E entry \in LineEntries : LogLine(entry)
  \/ FlushLines

SpecLine == InitLine /\ [][NextLine]_vars

\* the pieces of str between line feeds; what follows the last line feed, if
\* anything, is a piece too
RECURSIVE SplitLines(_)
SplitLines(str) ==
  IF str = <<>> THEN <<>>
  ELSE IF \A i \in 1..Len(str) : str[i] # "\n" THEN << str >>
  ELSE LET n == CHOOSE i \in 1..Len(str) :
                  str[i] = "\n" /\ \A j \in 1..(i - 1) : str[j] # "\n"
       IN  << SubSeq(str, 1, n - 1) >> \o SplitLines(SubSeq(str, n + 1, Len(str)))

\* C31: every write request is a whole number of complete lines, each the
\* serialization of one accepted record without a line feed inside, so the
\* content written so far splits at line feeds into the serializations of
\* the accepted records, in order, and a serialization determines its record.
C31_LineIntegrity ==
  LET written == SplitLines(join(arg.requests))
  IN  /\ \A i \in 1..Len(arg.requests) :
           /\ arg.requests[i] # <<>>
           /\ arg.requests[i][Len(arg.requests[i])] = "\n"
      /\ Len(written) + Len(arg.buffer) = Len(arg.accepted)
      /\ \A i \in 1..Len(written) : written[i] = stringify(arg.accepted[i])
      /\ \A e1, e2 \in LineEntries : stringify(e1) = stringify(e2) => e1 = e2

\* two requests have been issued, one of them with two lines, and a message
\* with a line feed is among the records written
C31_Witness ==
  /\ Len(arg.requests) >= 2
  /\ \E i \in 1..Len(arg.requests) : Len(SplitLines(arg.requests[i])) = 2
  /\ \E i \in 1..Len(arg.accepted) :
       /\ i <= Len(SplitLines(join(arg.requests)))
       /\ \E j \in 1..Len(arg.accepted[i].vals[1].str) :
            arg.accepted[i].vals[1].str[j] = "\n"

====
